---- MODULE Spec2Model ----
(***************************************************************************)
(* The Cipherise service-provider SDK (lib/*.ts) as a state machine.       *)
(*                                                                         *)
(* Every network-bound method of the SDK is an async function.  A task is  *)
(* a call of one public method; between two transport requests a task runs *)
(* without interruption (promise continuations run to the next I/O), so    *)
(* one action is: "the transport answers the request in flight and the     *)
(* task runs until its next request is in flight or it completes".         *)
(* The call stack of a task is explicit, because Service.refreshSession    *)
(* issues its own requests through the same access helpers that call it.   *)
(* A behaviour follows one call of a public method from the state the       *)
(* constructors leave, or two calls in a row where the second depends on   *)
(* what the first stored (serverInformation then authenticate, validate    *)
(* then confirm).                                                          *)
(***************************************************************************)
EXTENDS Integers, Sequences, FiniteSets, TLC

VARIABLES
  stub,       \* the transport stub: "free" answers anything, "always" raises session-expired on every request
  sessionId,  \* Service.sessionId
  payloadSize,   \* Client.payloadSize: the cached maximum payload size, undefined until asked
  authObj,       \* the PushAuth / WaveAuth object in use: variant and appChallengeUrl
  verifyAuthUrl, \* Authentication.verifyAuthUrl of that object
  enrolment,     \* the Enrolment object: publicKeys, deviceId, confirmationUrl
  op,         \* per task: the public method being called, with its arguments
  stack,      \* per task: the frames of the async call chain, innermost last
  log,        \* per task: the transport requests of the current call, each with its answer
  out,        \* per task: how the current call ended (returned value or thrown error)
  cnt,        \* per task: what the current call has done so far (counts of internal steps)
  expired,    \* session-expired answers the free stub has given during the current calls
  deep        \* parity of the nesting depth beyond MaxNest (only the "always" stub goes there)

vars == <<stub, sessionId, payloadSize, authObj, verifyAuthUrl, enrolment, op, stack, log, out,
          cnt, expired, deep>>

----------------------------------------------------------------------------
(* Bounds of the model *)

\* refreshSession invocations that may be open at once on one call chain
MaxNest == 2
\* session-expired answers the free stub gives during one call
MaxExpired == 2
\* getUserDevices: the most devices the server reports
MaxDevices == 2

Tasks == {1, 2}
\* the task that makes the calls where calls are made one after the other
Callers == {1}

----------------------------------------------------------------------------
(* Values *)

UndefVal == [ty |-> "undefined"]
NoOut == [s |-> "none"]
Ret(v) == [s |-> "ret", v |-> v]
Throw(e) == [s |-> "throw", e |-> e]
Pending == [r |-> "pending"]
Ok(body) == [r |-> "ok", body |-> body]
SessionExpired == [r |-> "expired"]
Failed(e) == [r |-> "error", e |-> e]

\* Tokens the server hands out; null is "no session yet".  Each new session gets a
\* token other than the one in use.
Tokens == {"t1", "t2"}
NextToken(sid) == IF sid = "t1" THEN "t2" ELSE "t1"
NullTok == "<null>"
UndefTok == "<undefined>"
\* an optional string that is absent
Undefined == "<undefined>"

\* lib/client.ts: the WebClient's base URL ends in exactly one slash
BaseUrl == "https://cs/"
ServiceId == "svc"

TargetBody == [ty |-> "body", data |-> "target-response"]
ChallengeBody == [ty |-> "challenge", spAuthChallenge |-> "c0ffee", authToken |-> "auth-token"]
SessionBody(tok) == [ty |-> "session", sessionId |-> tok]

\* The classified errors of the transport other than session expiry
OtherErrors == {"TimeoutError", "Error"}

\* refresh: refreshSession invocations; verifySig: Service.verifySignature evaluations;
\* solution: evaluations of the device's challenge solution; accept: Authentication.accept
\* invocations; sign: Service.calculateSignature invocations
ZeroCnt == [refresh |-> 0, verifySig |-> 0, solution |-> 0, accept |-> 0, sign |-> 0]

----------------------------------------------------------------------------
(* Keys and signatures.  RSA is taken as perfect: a signature is valid for a *)
(* public key and a message exactly when it was made with the matching     *)
(* private key over that very message.                                      *)

ServiceKey == "service-key"
DeviceKeys == {"device-key-1", "device-key-2"}
StrangerKey == "stranger-key"

RsaSign(key, data) == [by |-> key, over |-> data]
RsaVerify(key, data, sig) == sig.by = key /\ sig.over = data

\* String.prototype.toLowerCase on the strings of the model
ToLowerCase(str) ==
  CASE str = "Alice" -> "alice"
    [] str = "HTTPS://CS/" -> "https://cs/"
    [] OTHER -> str

\* Number.prototype.toString on the levels of the model
LevelToString(n) ==
  CASE n = 1 -> "1" [] n = 2 -> "2" [] n = 3 -> "3" [] n = 4 -> "4" [] OTHER -> "NaN"

\* NodeRSA.exportKey("pkcs8-public-pem")
ExportPem(key) == "-----BEGIN PUBLIC KEY-----" \o key \o "-----END PUBLIC KEY-----"

\* A Service: the URL of its web client, its id and its key
ServiceOf(url, id) == [url |-> url, id |-> id, key |-> ServiceKey]
ThisService == ServiceOf(BaseUrl, ServiceId)

\* SHA-256 of the concatenation of the six values, taken as collision free
SignatureDataWithoutDevice(service, username, deviceId, publicKey, publicKeyLevel) ==
  [sha256 |-> ToLowerCase(service.url) \o service.id \o ToLowerCase(username)
              \o ExportPem(publicKey) \o "\n" \o LevelToString(publicKeyLevel)]
SignatureData(service, username, deviceId, publicKey, publicKeyLevel) ==
  [sha256 |-> ToLowerCase(service.url) \o service.id \o ToLowerCase(username) \o deviceId
              \o ExportPem(publicKey) \o "\n" \o LevelToString(publicKeyLevel)]

calculateSignatureData(username, deviceId, publicKey, publicKeyLevel) ==
  SignatureData(ThisService, username, deviceId, publicKey, publicKeyLevel)

calculateSignature(username, deviceId, publicKey, publicKeyLevel) ==
  RsaSign(ServiceKey, calculateSignatureData(username, deviceId, publicKey, publicKeyLevel))

\* calculateSignature and verifySignature as methods of a given Service
SignedBy(service, username, deviceId, publicKey, publicKeyLevel) ==
  RsaSign(service.key,
          SignatureData(service, username, deviceId, publicKey, publicKeyLevel))
VerifiedBySuppliedKey(service, signature, username, deviceId, publicKey, publicKeyLevel) ==
  RsaVerify(publicKey,
            SignatureData(service, username, deviceId, publicKey, publicKeyLevel),
            signature)
VerifiedBy(service, signature, username, deviceId, publicKey, publicKeyLevel) ==
  RsaVerify(service.key,
            SignatureData(service, username, deviceId, publicKey, publicKeyLevel),
            signature)

\* this.key.verify(signatureData, signature): checked against the Service's own key
verifySignatureAnyLevel(signature, username, deviceId, publicKey, publicKeyLevel) ==
  \E l \in 1..4 :
    RsaVerify(ServiceKey, calculateSignatureData(username, deviceId, publicKey, l), signature)
verifySignature(signature, username, deviceId, publicKey, publicKeyLevel) ==
  RsaVerify(ServiceKey,
            calculateSignatureData(username, deviceId, publicKey, publicKeyLevel),
            signature)

----------------------------------------------------------------------------
(* Payloads and the payload envelope *)

\* crypto.randomBytes(128 / 8): the IV appended to the ciphertext
IvBytes == 16
\* Client.serverInformation: the payload size when the server names none
DefaultPayloadSize == 4000

EmptyDict == << >>
NoPayload == UndefVal
\* PayloadRequest: get is a list of identifiers, set a dictionary
PayloadArgs ==
  { NoPayload,
    [ty |-> "PayloadRequest", get |-> <<"pin">>, set |-> EmptyDict],
    [ty |-> "PayloadRequest", get |-> <<"pin">>, set |-> [token |-> "abc"]] }

\* new PayloadResponse()
EmptyPayloadResponse == [get |-> EmptyDict, set |-> FALSE]

RECURSIVE SumOver(_, _)
SumOver(S, w) ==
  IF S = {} THEN 0
  ELSE LET x == CHOOSE y \in S : TRUE IN w[x] + SumOver(S \ {x}, w)

Commas(n) == IF n = 0 THEN 0 ELSE n - 1

\* JSON.stringify of a list of strings and of a dictionary of strings: the length
JsonLenList(list) ==
  2 + SumOver(DOMAIN list, [k \in DOMAIN list |-> Len(list[k]) + 2]) + Commas(Len(list))
JsonLenDict(dict) ==
  2 + SumOver(DOMAIN dict, [k \in DOMAIN dict |-> Len(k) + Len(dict[k]) + 5])
    + Commas(Cardinality(DOMAIN dict))
\* {"get":[...],"set":{...}} and {"set":{...}}
JsonLen(json) ==
  IF "get" \in DOMAIN json
  THEN 15 + JsonLenList(json.get) + JsonLenDict(json.set)
  ELSE 8 + JsonLenDict(json.set)

\* JSON.stringify of the values of the model: a list of strings, a dictionary of
\* strings, a payload request {get, set} or {set}, and a payload response
\* {getResponse, setResponse} or {setResponse}
Quote(str) == "\"" \o str \o "\""
RECURSIVE StringifyItems(_, _)
StringifyItems(list, from) ==
  IF from > Len(list) THEN ""
  ELSE Quote(list[from]) \o (IF from = Len(list) THEN "" ELSE ",")
         \o StringifyItems(list, from + 1)
StringifyFirstItem(list) == "[" \o (IF Len(list) = 0 THEN "" ELSE Quote(list[1])) \o "]"
StringifyList(list) == "[" \o StringifyItems(list, 1) \o "]"
RECURSIVE StringifyMembers(_, _)
StringifyMembers(dict, keys) ==
  IF keys = {} THEN ""
  ELSE LET k == CHOOSE x \in keys : TRUE IN
       Quote(k) \o ":" \o Quote(dict[k]) \o (IF keys = {k} THEN "" ELSE ",")
         \o StringifyMembers(dict, keys \ {k})
StringifyDict(dict) == "{" \o StringifyMembers(dict, DOMAIN dict) \o "}"
StringifyBoolean(b) == IF b THEN "true" ELSE "false"
JsonStringify(json) ==
  CASE {"getResponse", "setResponse"} \subseteq DOMAIN json ->
         "{\"getResponse\":" \o StringifyDict(json.getResponse)
           \o ",\"setResponse\":" \o StringifyBoolean(json.setResponse) \o "}"
    [] "setResponse" \in DOMAIN json ->
         "{\"setResponse\":" \o StringifyBoolean(json.setResponse) \o "}"
    [] "get" \in DOMAIN json ->
         "{\"get\":" \o StringifyList(json.get)
           \o ",\"set\":" \o StringifyDict(json.set) \o "}"
    [] OTHER -> "{\"set\":" \o StringifyDict(json.set) \o "}"

\* The JSON values of the model
Identifiers == {<<"pin">>, <<"pin", "otp">>}
Dicts == {EmptyDict, [token |-> "abc"], [pin |-> "1234"]}
JsonValues ==
  [get : Identifiers, set : Dicts] \cup [set : Dicts]
    \cup [getResponse : Dicts, setResponse : BOOLEAN] \cup [setResponse : BOOLEAN]

\* JSON.parse: the value the text is the serialization of, or a SyntaxError
JsonParse(text) ==
  IF \E v \in JsonValues : JsonStringify(v) = text
  THEN Ret(CHOOSE v \in JsonValues : JsonStringify(v) = text)
  ELSE Throw("SyntaxError")

\* Buffer.toString("hex") writes lower-case digits; Buffer.from(.., "hex") reads digits
\* of either case
ToHex(bytes) == [hex |-> bytes, digits |-> "lower"]
FromHex(str) == str.hex
ToUpperCase(str) == [str EXCEPT !.digits = "upper"]

\* The envelope: AES-256-CFB ciphertext (as long as the plaintext) followed by the IV,
\* the AES key RSA-encrypted to the recipient, and the sender's signature over that,
\* each in hex
Envelope(recipientKey, senderKey, text) ==
  LET encryptedKey == [rsaTo |-> recipientKey, aesKey |-> "aes-key"] IN
  [ty |-> "envelope",
   data |-> ToHex([aes |-> text, key |-> "aes-key", len |-> Len(text) + IvBytes]),
   key |-> ToHex(encryptedKey),
   signature |-> ToHex(RsaSign(senderKey, encryptedKey))]

\* Service.decryptPayloadJson: the decrypted JSON, or the error thrown
decryptPayloadJsonLengthFirst(initiatorPublicKey, json) ==
  IF json = UndefVal THEN Throw("TypeError")
  ELSE LET encryptedDataWithIV == FromHex(json.data)
           encryptedKey == FromHex(json.key)
           signature == FromHex(json.signature)
       IN  IF encryptedDataWithIV.len - IvBytes <= 0
           THEN Throw("Data field insufficiently long for both data and IV")
           ELSE IF ~RsaVerify(initiatorPublicKey, encryptedKey, signature)
           THEN Throw("Failed payload signature verification")
           ELSE IF encryptedKey.rsaTo # ServiceKey
           THEN Throw("Error during decryption")
           ELSE IF encryptedDataWithIV.key # encryptedKey.aesKey
           THEN Throw("SyntaxError")
           ELSE JsonParse(encryptedDataWithIV.aes)
decryptPayloadJson(initiatorPublicKey, json) ==
  IF json = UndefVal THEN Throw("TypeError")
  ELSE LET encryptedDataWithIV == FromHex(json.data)
           encryptedKey == FromHex(json.key)
           signature == FromHex(json.signature)
       IN  IF ~RsaVerify(initiatorPublicKey, encryptedKey, signature)
           THEN Throw("Failed payload signature verification")
           ELSE IF encryptedKey.rsaTo # ServiceKey
           THEN Throw("Error during decryption")
           ELSE IF encryptedDataWithIV.len - IvBytes <= 0
           THEN Throw("Data field insufficiently long for both data and IV")
           ELSE IF encryptedDataWithIV.key # encryptedKey.aesKey
           THEN Throw("SyntaxError")
           ELSE JsonParse(encryptedDataWithIV.aes)

----------------------------------------------------------------------------
(* Service access helpers and refreshSession *)

HelperKinds == {"postUrl", "postUri", "getUrl", "getUri"}

Method(kind) == IF kind \in {"postUrl", "postUri"} THEN "POST" ELSE "GET"

\* WebClient.postUri / getUri prefix the base URL
FullUrl(kind, url) == IF kind \in {"postUri", "getUri"} THEN BaseUrl \o url ELSE url

\* `this.sessionId ? this.sessionId : undefined`
SessionHeader(sid) == IF sid \in {NullTok, UndefTok, ""} THEN UndefTok ELSE sid

Top(m) == m.stack[Len(m.stack)]
Pop(m) == [m EXCEPT !.stack = SubSeq(@, 1, Len(@) - 1)]

Request(m, fr) ==
  [method |-> Method(fr.kind), url |-> FullUrl(fr.kind, fr.url),
   tok |-> SessionHeader(m.sid), form |-> fr.form, i |-> fr.i,
   nest |-> Cardinality({k \in 1..Len(m.stack) : m.stack[k].f = "refreshSession"}),
   resp |-> Pending]

\* A helper is entered: its first attempt goes out with the current session id
CallHelper(m, kind, url, form) ==
  LET fr == [f |-> "helper", kind |-> kind, url |-> url, form |-> form, i |-> 0]
  IN  [m EXCEPT !.log = Append(@, Request(m, fr)), !.stack = Append(@, fr)]

\* The loop's next iteration: the same request again, with the session id as it is now
HelperRetryStale(m) ==
  LET fr == [Top(m) EXCEPT !.i = @ + 1]
      first == CHOOSE k \in 1..Len(m.log) :
                 /\ m.log[k].i = 0 /\ m.log[k].nest = Request(m, fr).nest
                 /\ \A j \in k+1..Len(m.log) : ~(m.log[j].i = 0 /\ m.log[j].nest = m.log[k].nest)
  IN  [m EXCEPT !.stack[Len(m.stack)] = fr,
                !.log = Append(@, [Request(m, fr) EXCEPT !.tok = m.log[first].tok])]
HelperRetry(m) ==
  LET fr == [Top(m) EXCEPT !.i = @ + 1]
  IN  [m EXCEPT !.stack[Len(m.stack)] = fr, !.log = Append(@, Request(m, fr))]

\* refreshSession is entered: its challenge request goes out through getUri
RefreshStart(m) ==
  CallHelper([m EXCEPT !.stack = Append(@, [f |-> "refreshSession", pc |-> "challenge"]),
                       !.cnt.refresh = @ + 1],
             "getUri", "sp/authenticate-service/" \o ServiceId, UndefVal)

RECURSIVE Deliver(_, _)

----------------------------------------------------------------------------
(* Client.serverInformation and Service.encryptPayloadData *)

\* Client.payloadSize before any serverInformation
UndefinedSize == -1
MinMajorVersion == 6

\* parseInt(serverVersion.split(".")[0], 10) on the versions of the model
ParseMajor(version) ==
  CASE version = "6.3.1" -> [nan |-> FALSE, n |-> 6]
    [] version = "5.9.9" -> [nan |-> FALSE, n |-> 5]
    [] version = "10.0.1" -> [nan |-> FALSE, n |-> 10]
    [] OTHER -> [nan |-> TRUE, n |-> 0]

ServerInfoBodies ==
  { [ty |-> "info", productType |-> "CS", serverVersion |-> "6.3.1", payloadSize |-> UndefinedSize],
    [ty |-> "info", productType |-> "CS", serverVersion |-> "6.3.1", payloadSize |-> 106],
    [ty |-> "info", productType |-> "CS", serverVersion |-> "6.3.1", payloadSize |-> 0],
    [ty |-> "info", productType |-> "CS", serverVersion |-> "10.0.1", payloadSize |-> 78],
    [ty |-> "info", productType |-> "CIS", serverVersion |-> "6.3.1", payloadSize |-> UndefinedSize],
    [ty |-> "info", productType |-> "CS", serverVersion |-> "5.9.9", payloadSize |-> UndefinedSize] }

\* webClient.getUri("info", undefined): sent outside the retry wrapper, without session id
ServerInfoStart(m) ==
  LET fr == [f |-> "serverInformation", kind |-> "getUri", url |-> "info",
             form |-> UndefVal, i |-> 0]
  IN  [m EXCEPT !.log = Append(@, [Request(m, fr) EXCEPT !.tok = UndefTok]),
                !.stack = Append(@, fr)]

ServerInfoAnsweredStoreFirst(m, resp) ==
  CASE resp.r = "expired" -> Deliver(Pop(m), Throw("SessionExpiredError"))
    [] resp.r = "error"   -> Deliver(Pop(m), Throw(resp.e))
    [] resp.r = "ok" ->
         LET size == IF resp.body.payloadSize \in {UndefinedSize, 0}
                     THEN DefaultPayloadSize ELSE resp.body.payloadSize
             mm   == [Pop(m) EXCEPT !.psize = size]
         IN  IF resp.body.productType # "CS"
             THEN Deliver(mm, Throw("Expected Cipherise server"))
             ELSE IF ~ParseMajor(resp.body.serverVersion).nan
                     /\ ParseMajor(resp.body.serverVersion).n < MinMajorVersion
             THEN Deliver(mm, Throw("Server older than 6.x.x"))
             ELSE Deliver(mm, Ret([ty |-> "ServerInformation", payloadSize |-> size]))
ServerInfoAnswered(m, resp) ==
  CASE resp.r = "expired" -> Deliver(Pop(m), Throw("SessionExpiredError"))
    [] resp.r = "error"   -> Deliver(Pop(m), Throw(resp.e))
    [] resp.r = "ok" ->
         IF resp.body.productType # "CS"
         THEN Deliver(Pop(m), Throw("Expected Cipherise server"))
         ELSE IF ~ParseMajor(resp.body.serverVersion).nan
                 /\ ParseMajor(resp.body.serverVersion).n < MinMajorVersion
         THEN Deliver(Pop(m), Throw("Server older than 6.x.x"))
         ELSE LET size == IF resp.body.payloadSize \in {UndefinedSize, 0}
                          THEN DefaultPayloadSize ELSE resp.body.payloadSize
              IN  Deliver([Pop(m) EXCEPT !.psize = size],
                          Ret([ty |-> "ServerInformation", payloadSize |-> size]))

\* Client.createService: the POST that registers the new key, sent by the web client
\* itself, without session id
CreatePost(m) ==
  [m EXCEPT !.stack[Len(m.stack)].pc = "create",
            !.log = Append(@, [Request(m, Top(m)) EXCEPT !.tok = UndefTok])]

\* createService up to its first request: the server's information when the Client
\* validates the server version, the POST otherwise
createService(m, validateServerVersion) ==
  LET fr == [f |-> "createService", pc |-> "info", kind |-> "postUri",
             url |-> "sp/create-service",
             form |-> [ty |-> "create", friendlyName |-> "name",
                       publicKey |-> ExportPem("new-key")],
             i |-> 0]
      pushed == [m EXCEPT !.stack = Append(@, fr)]
  IN  IF validateServerVersion THEN ServerInfoStart(pushed) ELSE CreatePost(pushed)

\* createService gets the result of serverInformation
CreateResumedAnyServer(m, sig) == CreatePost(m)
CreateResumed(m, sig) == IF sig.s = "throw" THEN Deliver(Pop(m), sig) ELSE CreatePost(m)

\* createService gets the answer to its POST: new Service(response.serviceId, ..., key,
\* null, ...)
CreateAnswered(m, resp) ==
  CASE resp.r = "expired" -> Deliver(Pop(m), Throw("SessionExpiredError"))
    [] resp.r = "error"   -> Deliver(Pop(m), Throw(resp.e))
    [] resp.r = "ok" ->
         Deliver(Pop(m), Ret([ty |-> "Service", id |-> resp.body.serviceId,
                              url |-> BaseUrl, key |-> "new-key", sessionId |-> NullTok]))

\* encryptPayloadData after `await this.client.getPayloadSize()`: the size check
EncryptResumedStrict(m, sig) ==
  IF sig.s = "throw" THEN Deliver(Pop(m), sig)
  ELSE IF FromHex(Top(m).envelope.data).len * 2 > m.psize
  THEN Deliver(Pop(m), Throw("PayloadDataLengthExceededError"))
  ELSE Deliver(Pop(m), Ret(Top(m).envelope))
EncryptResumed(m, sig) ==
  IF sig.s = "throw" THEN Deliver(Pop(m), sig)
  ELSE IF FromHex(Top(m).envelope.data).len * 2 >= m.psize
  THEN Deliver(Pop(m), Throw("PayloadDataLengthExceededError"))
  ELSE Deliver(Pop(m), Ret(Top(m).envelope))

\* encryptPayloadData up to `await this.client.getPayloadSize()`, which asks the server
\* only when no size is cached
encryptPayloadDataAlwaysAsks(m, recipientPublicKey, json) ==
  ServerInfoStart([m EXCEPT !.stack = Append(@,
     [f |-> "encryptPayloadData",
      envelope |-> Envelope(recipientPublicKey, ServiceKey, JsonStringify(json))])])
encryptPayloadData(m, recipientPublicKey, json) ==
  LET fr == [f |-> "encryptPayloadData",
             envelope |-> Envelope(recipientPublicKey, ServiceKey, JsonStringify(json))]
      pushed == [m EXCEPT !.stack = Append(@, fr)]
  IN  IF m.psize = UndefinedSize THEN ServerInfoStart(pushed)
      ELSE EncryptResumed(pushed, Ret(UndefVal))

----------------------------------------------------------------------------
(* Service.getUserDevices *)

Levels == {1, 2}
Min(S) == CHOOSE x \in S : \A y \in S : x <= y

Device(deviceId, friendlyName, publicKeys) ==
  [ty |-> "Device", id |-> deviceId, name |-> friendlyName, keys |-> publicKeys]

\* The for-in loop over deviceJson.signatures, levels ascending: the device is pushed,
\* or dropped at the first signature that does not verify; found is foundValidDevice
RECURSIVE ScanLevelsSkipInvalid(_, _, _, _)
ScanLevelsSkipInvalid(deviceJson, username, levels, found) ==
  IF levels = {} THEN [v |-> "push", found |-> found]
  ELSE LET level == Min(levels) IN
       IF level \notin DOMAIN deviceJson.publicKeys THEN [v |-> "TypeError", found |-> found]
       ELSE ScanLevelsSkipInvalid(deviceJson, username, levels \ {level},
              found \/ verifySignature(deviceJson.signatures[level], username,
                           deviceJson.deviceId, deviceJson.publicKeys[level], level))
RECURSIVE ScanLevels(_, _, _, _)
ScanLevels(deviceJson, username, levels, found) ==
  IF levels = {} THEN [v |-> "push", found |-> found]
  ELSE LET level == Min(levels) IN
       IF level \notin DOMAIN deviceJson.publicKeys THEN [v |-> "TypeError", found |-> found]
       ELSE IF verifySignature(deviceJson.signatures[level], username,
                               deviceJson.deviceId, deviceJson.publicKeys[level], level)
       THEN ScanLevels(deviceJson, username, levels \ {level}, TRUE)
       ELSE [v |-> "drop", found |-> found]

\* devicesJson.forEach from index i on, then the foundValidDevice test
RECURSIVE ScanDevices(_, _, _, _, _)
ScanDevices(devicesJson, i, username, devices, found) ==
  IF i > Len(devicesJson)
  THEN IF ~found THEN Throw("Mismatching key signatures") ELSE Ret(devices)
  ELSE LET deviceJson == devicesJson[i]
           r == ScanLevels(deviceJson, username, DOMAIN deviceJson.signatures, found)
       IN  CASE r.v = "TypeError" -> Throw("TypeError")
             [] r.v = "drop" -> ScanDevices(devicesJson, i + 1, username, devices, r.found)
             [] r.v = "push" ->
                  ScanDevices(devicesJson, i + 1, username,
                              Append(devices, Device(deviceJson.deviceId,
                                                     deviceJson.friendlyName,
                                                     deviceJson.publicKeys)),
                              r.found)

\* getUserDevices up to its request
getUserDevices(m, username) ==
  CallHelper([m EXCEPT !.stack = Append(@, [f |-> "getUserDevices", username |-> username])],
             "getUri", "sp/user-devices/" \o username, UndefVal)

\* getUserDevices from the answer on
DevicesResumed(m, sig) ==
  CASE sig.s = "throw" -> Deliver(Pop(m), sig)
    [] sig.s = "ret" /\ sig.v = UndefVal -> Deliver(Pop(m), Throw("TypeError"))
    [] sig.s = "ret" /\ sig.v # UndefVal ->
         Deliver(Pop(m), ScanDevices(sig.v.devices, 1, Top(m).username, <<>>,
                                     Len(sig.v.devices) = 0))

----------------------------------------------------------------------------
(* Enrolment.validate and Enrolment.confirm *)

EnrolUsername == "Alice"
MissingConfirmUrl == "Expected confirmation URL. Has 'validate' been called?"
\* `!this.confirmationUrl`
Falsy(str) == str \in {"", Undefined}
Str(str) == [ty |-> "string", s |-> str]

EnrolmentResult(success, payloadResponse) ==
  [ty |-> "EnrolmentResult", success |-> success, payload |-> payloadResponse]

validate(m) ==
  CallHelper([m EXCEPT !.stack = Append(@, [f |-> "validate"])],
             "getUrl", "validateUrl", UndefVal)

ValidateResumedStoreFirst(m, sig) ==
  CASE sig.s = "throw" -> Deliver(Pop(m), sig)
    [] sig.s = "ret" /\ sig.v = UndefVal -> Deliver(Pop(m), Throw("TypeError"))
    [] sig.s = "ret" /\ sig.v # UndefVal ->
         LET m1 == [Pop(m) EXCEPT !.enr = [publicKeys |-> sig.v.publicKeys,
                                           deviceId |-> sig.v.deviceId,
                                           confirmationUrl |-> sig.v.confirmationURL]]
         IN  IF ~Falsy(sig.v.failReason) THEN Deliver(m1, Throw(sig.v.failReason))
             ELSE Deliver(m1, Ret(Str(sig.v.identiconURL)))
ValidateResumed(m, sig) ==
  CASE sig.s = "throw" -> Deliver(Pop(m), sig)
    [] sig.s = "ret" /\ sig.v = UndefVal -> Deliver(Pop(m), Throw("TypeError"))
    [] sig.s = "ret" /\ sig.v # UndefVal ->
         IF ~Falsy(sig.v.failReason) THEN Deliver(Pop(m), Throw(sig.v.failReason))
         ELSE Deliver([Pop(m) EXCEPT !.enr = [publicKeys |-> sig.v.publicKeys,
                                              deviceId |-> sig.v.deviceId,
                                              confirmationUrl |-> sig.v.confirmationURL]],
                      Ret(Str(sig.v.identiconURL)))

\* Enrolment.getState: the status response mapped to an EnrolmentState
EnrolmentStateByName(status) ==
  CASE status = "initialised" -> "Initialised"
    [] status = "scanned"     -> "Scanned"
    [] status = "validated"   -> "Validated"
    [] status = "confirmed"   -> "Confirmed"
    [] status = "failed"      -> "Failed"
    [] OTHER                  -> "Unknown"
EnrolmentState(status) ==
  CASE status = "initialised" -> "Initialised"
    [] status = "scanned"     -> "Scanned"
    [] status = "validated"   -> "Validated"
    [] status = "confirm"     -> "Confirmed"
    [] status = "failed"      -> "Failed"
    [] OTHER                  -> "Unknown"

getState(m) ==
  CallHelper([m EXCEPT !.stack = Append(@, [f |-> "getState"])],
             "getUrl", "statusUrl", UndefVal)

GetStateResumed(m, sig) ==
  CASE sig.s = "throw" -> Deliver(Pop(m), sig)
    [] sig.s = "ret" /\ sig.v = UndefVal -> Deliver(Pop(m), Throw("TypeError"))
    [] sig.s = "ret" /\ sig.v # UndefVal ->
         Deliver(Pop(m), Ret(Str(EnrolmentState(sig.v.QREnrolStatus))))

----------------------------------------------------------------------------
(* Serialization and deserialization *)

\* What msgpack encodes and decodes again: an array keeps its elements, null and
\* undefined among them; a buffer that is not the encoding of an array decodes to
\* something Array.isArray refuses
Null == "<null>"
Encoded(arr) == [ty |-> "buffer", arr |-> arr]
NotAnArray == [ty |-> "buffer of no array", arr |-> << >>]
IsArray(data) == data.ty = "buffer"

\* NodeRSA.exportKey("pkcs1-private-der") and importKey of it
ExportDer(key) == [der |-> key]
ImportDer(buffer) == buffer.der
\* NodeRSA.importKey(.., "pkcs8-public-pem")
ImportPem(pem) == CHOOSE key \in DeviceKeys \cup {ServiceKey, StrangerKey} : ExportPem(key) = pem
\* Number(level) of a property name
ToNumber(name) == CHOOSE n \in 1..4 : LevelToString(n) = name

\* util.publicKeyMapToObject: level -> exported key; the property names of an object
\* are strings
publicKeyMapToObject(publicKeys) ==
  [name \in {LevelToString(l) : l \in DOMAIN publicKeys} |->
     ExportPem(publicKeys[ToNumber(name)])]
\* util.objectToPublicKeyMap
objectToPublicKeyMap(object) ==
  [l \in {ToNumber(name) : name \in DOMAIN object} |-> ImportPem(object[LevelToString(l)])]

\* null for undefined on the way out, undefined for null on the way in
NullIfUndefined(v) == IF v = Undefined THEN Null ELSE v
NullKept(v) == v
UndefinedIfNull(v) == IF v = Null THEN Undefined ELSE v

\* Enrolment.serialize: the array that is encoded
EnrolmentHeader == "CiphEnrl"
SERIALIZED_VERSION == "6.0.0"
serialize(enr) ==
  [ty |-> "buffer",
   arr |-> <<EnrolmentHeader, SERIALIZED_VERSION, "logId", "WaveCodeUrl", "directEnrolUrl",
             "statusUrl", "validateUrl", EnrolUsername, enr.confirmationUrl, enr.deviceId,
             publicKeyMapToObject(enr.publicKeys)>>]

ServiceHeader == "CiphSrvc"
DeviceHeader == "CiphDvce"
PushAuthHeader == "CiphUsrP"
WaveAuthHeader == "CiphUsrW"

\* The objects: a Service with its session token, a Device, an Enrolment with the
\* fields validate fills in, a PushAuth and a WaveAuth
ServiceObject(sid) ==
  [ty |-> "Service", id |-> ServiceId, url |-> BaseUrl, key |-> ServiceKey, sessionId |-> sid]
EnrolmentObject(service, enr) ==
  [ty |-> "Enrolment", service |-> service, logId |-> "logId", WaveCodeUrl |-> "WaveCodeUrl",
   directEnrolUrl |-> "directEnrolUrl", statusUrl |-> "statusUrl",
   validateUrl |-> "validateUrl", username |-> EnrolUsername,
   publicKeys |-> enr.publicKeys, deviceId |-> enr.deviceId,
   confirmationUrl |-> enr.confirmationUrl]
PushAuthObject(service, device, vurl) ==
  [ty |-> "PushAuth", service |-> service, logId |-> "logId", authChallenge |-> "challenge",
   authLevel |-> 1, username |-> "Alice", device |-> device, statusUrl |-> "statusUrl",
   assertionUrl |-> "assertionUrl", verifyAuthUrl |-> vurl]
WaveAuthObject(service, appChallengeUrl, vurl) ==
  [ty |-> "WaveAuth", service |-> service, logId |-> "logId", authChallenge |-> "challenge",
   authLevel |-> 1, initiatorUrl |-> "initiatorUrl", WaveCodeUrl |-> "WaveCodeUrl",
   statusUrl |-> "statusUrl", assertionUrl |-> "assertionUrl",
   appChallengeUrl |-> appChallengeUrl, verifyAuthUrl |-> vurl]

\* Service.serialize
serializeService(x) ==
  Encoded(<<ServiceHeader, SERIALIZED_VERSION, x.id, ExportDer(x.key), Null, x.sessionId>>)
\* Device.serialize
serializeDevice(x) == Encoded(<<DeviceHeader, x.id, x.name, publicKeyMapToObject(x.keys)>>)
\* Enrolment.serialize
serializeEnrolment(x) ==
  Encoded(<<EnrolmentHeader, SERIALIZED_VERSION, x.logId, x.WaveCodeUrl, x.directEnrolUrl,
            x.statusUrl, x.validateUrl, x.username, x.confirmationUrl, x.deviceId,
            publicKeyMapToObject(x.publicKeys)>>)
\* PushAuth.serialize
serializePushAuth(x) ==
  Encoded(<<PushAuthHeader, SERIALIZED_VERSION, x.logId, x.authChallenge, x.authLevel,
            x.username, serializeDevice(x.device), x.statusUrl, x.assertionUrl,
            NullIfUndefined(x.verifyAuthUrl)>>)
\* WaveAuth.serialize
serializeWaveAuth(x) ==
  Encoded(<<WaveAuthHeader, SERIALIZED_VERSION, x.logId, x.authChallenge, x.authLevel,
            x.initiatorUrl, x.WaveCodeUrl, x.statusUrl, x.assertionUrl,
            NullIfUndefined(x.appChallengeUrl), NullIfUndefined(x.verifyAuthUrl)>>)

\* Client.deserializeService: the Service gets the web client of the Client
deserializeService(data) ==
  IF ~IsArray(data)
  THEN Throw("Attempted to deserialize service, but buffer was invalid")
  ELSE LET arr == data.arr IN
       IF Len(arr) = 0
       THEN Throw("Attempted to deserialize service, but no components")
       ELSE IF arr[1] # ServiceHeader
       THEN Throw("Attempted to deserialize service, but header not found")
       ELSE IF Len(arr) = 5
       THEN Ret([ty |-> "Service", id |-> arr[2], url |-> BaseUrl,
                 key |-> ImportDer(arr[3]), sessionId |-> arr[5]])
       ELSE IF Len(arr) = 6
       THEN IF arr[2] # SERIALIZED_VERSION
            THEN Throw("Attempted to deserialize service, but header not found")
            ELSE Ret([ty |-> "Service", id |-> arr[3], url |-> BaseUrl,
                      key |-> ImportDer(arr[4]), sessionId |-> arr[6]])
       ELSE Throw("Attempted to deserialize service, but incorrect number of components")

\* Device.deserialize
deserializeDevice(data) ==
  IF ~IsArray(data)
  THEN Throw("Attempted to deserialize device, but buffer was invalid")
  ELSE LET arr == data.arr IN
       IF Len(arr) # 4
       THEN Throw("Attempted to deserialize device, but incorrect number of components")
       ELSE IF arr[1] # DeviceHeader
       THEN Throw("Attempted to deserialize device, but header not found")
       ELSE Ret(Device(arr[2], arr[3], objectToPublicKeyMap(arr[4])))

\* Service.deserializeEnrolment
deserializeEnrolment(service, data) ==
  IF ~IsArray(data)
  THEN Throw("Attempted to deserialize enrolment, but buffer was invalid")
  ELSE LET arr == data.arr IN
       IF Len(arr) # 11
       THEN Throw("Attempted to deserialize enrolment, but incorrect number of components")
       ELSE IF arr[1] # EnrolmentHeader
       THEN Throw("Attempted to deserialize enrolment, but header not found")
       ELSE IF arr[2] # SERIALIZED_VERSION
       THEN Throw("Attempted to deserialize PushAuth, but wrong version")
       ELSE Ret([ty |-> "Enrolment", service |-> service, logId |-> arr[3],
                 WaveCodeUrl |-> arr[4], directEnrolUrl |-> arr[5], statusUrl |-> arr[6],
                 validateUrl |-> arr[7], username |-> arr[8],
                 publicKeys |-> objectToPublicKeyMap(arr[11]), deviceId |-> arr[10],
                 confirmationUrl |-> arr[9]])

\* Service.deserializePushAuth
deserializePushAuth(service, data) ==
  IF ~IsArray(data)
  THEN Throw("Attempted to deserialize PushAuth, but buffer was invalid")
  ELSE LET arr == data.arr IN
       IF Len(arr) # 10
       THEN Throw("Attempted to deserialize PushAuth, but incorrect number of components")
       ELSE IF arr[1] # PushAuthHeader
       THEN Throw("Attempted to deserialize PushAuth, but header not found")
       ELSE IF arr[2] # SERIALIZED_VERSION
       THEN Throw("Attempted to deserialize PushAuth, but wrong version")
       ELSE LET device == deserializeDevice(arr[7]) IN
            IF device.s = "throw" THEN device
            ELSE Ret([ty |-> "PushAuth", service |-> service, logId |-> arr[3],
                      authChallenge |-> arr[4], authLevel |-> arr[5], username |-> arr[6],
                      device |-> device.v, statusUrl |-> arr[8], assertionUrl |-> arr[9],
                      verifyAuthUrl |-> UndefinedIfNull(arr[10])])

\* Service.deserializeWaveAuth
deserializeWaveAuth(service, data) ==
  IF ~IsArray(data)
  THEN Throw("Attempted to deserialize WaveAuth, but buffer was invalid")
  ELSE LET arr == data.arr IN
       IF Len(arr) # 11
       THEN Throw("Attempted to deserialize WaveAuth, but incorrect number of components")
       ELSE IF arr[1] # WaveAuthHeader
       THEN Throw("Attempted to deserialize WaveAuth, but header not found")
       ELSE IF arr[2] # SERIALIZED_VERSION
       THEN Throw("Attempted to deserialize WaveAuth, but wrong version")
       ELSE Ret([ty |-> "WaveAuth", service |-> service, logId |-> arr[3],
                 authChallenge |-> arr[4], authLevel |-> arr[5], initiatorUrl |-> arr[6],
                 WaveCodeUrl |-> arr[7], statusUrl |-> arr[8], assertionUrl |-> arr[9],
                 appChallengeUrl |-> UndefinedIfNull(arr[10]),
                 verifyAuthUrl |-> UndefinedIfNull(arr[11])])

\* Service.equals, Device.equals, Enrolment.equals, PushAuth.equals, WaveAuth.equals
equalsService(a, b) == a.id = b.id /\ a.url = b.url /\ ExportDer(a.key) = ExportDer(b.key)
equalsDevice(a, b) ==
  a.id = b.id /\ a.name = b.name /\ publicKeyMapToObject(a.keys) = publicKeyMapToObject(b.keys)
equalsEnrolment(a, b) ==
  /\ equalsService(a.service, b.service)
  /\ a.logId = b.logId /\ a.WaveCodeUrl = b.WaveCodeUrl
  /\ a.directEnrolUrl = b.directEnrolUrl /\ a.statusUrl = b.statusUrl
  /\ a.validateUrl = b.validateUrl /\ a.username = b.username
  /\ publicKeyMapToObject(a.publicKeys) = publicKeyMapToObject(b.publicKeys)
  /\ a.deviceId = b.deviceId /\ a.confirmationUrl = b.confirmationUrl
equalsPushAuth(a, b) ==
  /\ equalsService(a.service, b.service)
  /\ a.logId = b.logId /\ a.authChallenge = b.authChallenge /\ a.authLevel = b.authLevel
  /\ a.username = b.username /\ equalsDevice(a.device, b.device)
  /\ a.statusUrl = b.statusUrl /\ a.assertionUrl = b.assertionUrl
  /\ a.verifyAuthUrl = b.verifyAuthUrl
equalsWaveAuth(a, b) ==
  /\ equalsService(a.service, b.service)
  /\ a.logId = b.logId /\ a.authChallenge = b.authChallenge /\ a.authLevel = b.authLevel
  /\ a.initiatorUrl = b.initiatorUrl /\ a.WaveCodeUrl = b.WaveCodeUrl
  /\ a.statusUrl = b.statusUrl /\ a.assertionUrl = b.assertionUrl
  /\ a.appChallengeUrl = b.appChallengeUrl /\ a.verifyAuthUrl = b.verifyAuthUrl

\* serialize, deserialize and equals by the class of the object
serializeObject(x) ==
  CASE x.ty = "Service"   -> serializeService(x)
    [] x.ty = "Device"    -> serializeDevice(x)
    [] x.ty = "Enrolment" -> serializeEnrolment(x)
    [] x.ty = "PushAuth"  -> serializePushAuth(x)
    [] x.ty = "WaveAuth"  -> serializeWaveAuth(x)
deserializeAs(entity, service, data) ==
  CASE entity = "Service"   -> deserializeService(data)
    [] entity = "Device"    -> deserializeDevice(data)
    [] entity = "Enrolment" -> deserializeEnrolment(service, data)
    [] entity = "PushAuth"  -> deserializePushAuth(service, data)
    [] entity = "WaveAuth"  -> deserializeWaveAuth(service, data)
equalsObject(a, b) ==
  CASE a.ty = "Service"   -> equalsService(a, b)
    [] a.ty = "Device"    -> equalsDevice(a, b)
    [] a.ty = "Enrolment" -> equalsEnrolment(a, b)
    [] a.ty = "PushAuth"  -> equalsPushAuth(a, b)
    [] a.ty = "WaveAuth"  -> equalsWaveAuth(a, b)

PayloadToSet(payload) == payload # NoPayload /\ DOMAIN payload.set # {}

\* confirm: the POST of the request to the confirmation URL
ConfirmPostAlwaysConfirm(m, encrypted) ==
  CallHelper([m EXCEPT !.stack[Len(m.stack)].pc = "confirm"],
             "postUrl", m.enr.confirmationUrl,
             [ty |-> "confirmRequest", confirm |-> "confirm",
              payload |-> encrypted, signatures |-> Top(m).signatures])
ConfirmPost(m, encrypted) ==
  CallHelper([m EXCEPT !.stack[Len(m.stack)].pc = "confirm"],
             "postUrl", m.enr.confirmationUrl,
             [ty |-> "confirmRequest",
              confirm |-> IF Top(m).success THEN "confirm" ELSE "reject",
              payload |-> encrypted, signatures |-> Top(m).signatures])

\* confirm(success, payload) up to its first await
confirmUndefinedOnly(m, success, payload) ==
  IF m.enr.confirmationUrl = Undefined THEN Deliver(m, Throw(MissingConfirmUrl))
  ELSE LET keys == m.enr.publicKeys
           fr == [f |-> "confirm", pc |-> "start", success |-> success, payload |-> payload,
                  signatures |-> [l \in DOMAIN keys |->
                     calculateSignature(EnrolUsername, m.enr.deviceId, keys[l], l)],
                  next |-> NoOut]
           m1 == [m EXCEPT !.stack = Append(@, fr),
                           !.cnt.sign = @ + Cardinality(DOMAIN keys)]
       IN  IF success /\ PayloadToSet(payload)
           THEN encryptPayloadData([m1 EXCEPT !.stack[Len(m1.stack)].pc = "encrypt"],
                                   keys[1], [set |-> payload.set])
           ELSE ConfirmPost(m1, UndefVal)
confirm(m, success, payload) ==
  IF Falsy(m.enr.confirmationUrl) THEN Deliver(m, Throw(MissingConfirmUrl))
  ELSE LET keys == m.enr.publicKeys
           fr == [f |-> "confirm", pc |-> "start", success |-> success, payload |-> payload,
                  signatures |-> [l \in DOMAIN keys |->
                     calculateSignature(EnrolUsername, m.enr.deviceId, keys[l], l)],
                  next |-> NoOut]
           m1 == [m EXCEPT !.stack = Append(@, fr),
                           !.cnt.sign = @ + Cardinality(DOMAIN keys)]
       IN  IF success /\ PayloadToSet(payload)
           THEN encryptPayloadData([m1 EXCEPT !.stack[Len(m1.stack)].pc = "encrypt"],
                                   keys[1], [set |-> payload.set])
           ELSE ConfirmPost(m1, UndefVal)

\* confirm from the response of the confirmation URL on
ConfirmResponseKeepSuccess(m, response) ==
  LET fr == Top(m) IN
  IF ~PayloadToSet(fr.payload)
  THEN Deliver(Pop(m), Ret(EnrolmentResult(fr.success, UndefVal)))
  ELSE IF response = UndefVal THEN Deliver(Pop(m), Throw("TypeError"))
  ELSE LET dec == decryptPayloadJson(m.enr.publicKeys[1], response.payload) IN
       IF dec.s = "throw" THEN Deliver(Pop(m), dec)
       ELSE LET result == Ret(EnrolmentResult(fr.success,
                                [get |-> EmptyDict, set |-> dec.v.setResponse]))
            IN  IF ~Falsy(response.payloadVerifyURL)
                THEN CallHelper([m EXCEPT !.stack[Len(m.stack)].pc = "payloadVerify",
                                          !.stack[Len(m.stack)].next = result],
                                "postUrl", response.payloadVerifyURL,
                                [ty |-> "payloadVerify", verified |-> fr.success])
                ELSE Deliver(Pop(m), result)
ConfirmResponse(m, response) ==
  LET fr == Top(m) IN
  IF ~PayloadToSet(fr.payload)
  THEN Deliver(Pop(m), Ret(EnrolmentResult(fr.success, UndefVal)))
  ELSE IF response = UndefVal THEN Deliver(Pop(m), Throw("TypeError"))
  ELSE LET dec == decryptPayloadJson(m.enr.publicKeys[1], response.payload) IN
       IF dec.s = "throw" THEN Deliver(Pop(m), dec)
       ELSE LET success == fr.success /\ dec.v.setResponse
                result == Ret(EnrolmentResult(success,
                                [get |-> EmptyDict, set |-> dec.v.setResponse]))
            IN  IF ~Falsy(response.payloadVerifyURL)
                THEN CallHelper([m EXCEPT !.stack[Len(m.stack)].pc = "payloadVerify",
                                          !.stack[Len(m.stack)].next = result],
                                "postUrl", response.payloadVerifyURL,
                                [ty |-> "payloadVerify", verified |-> success])
                ELSE Deliver(Pop(m), result)

ConfirmResumed(m, sig) ==
  CASE sig.s = "throw" -> Deliver(Pop(m), sig)
    [] sig.s = "ret" /\ Top(m).pc = "encrypt" -> ConfirmPost(m, sig.v)
    [] sig.s = "ret" /\ Top(m).pc = "confirm" -> ConfirmResponse(m, sig.v)
    [] sig.s = "ret" /\ Top(m).pc = "payloadVerify" -> Deliver(Pop(m), Top(m).next)

----------------------------------------------------------------------------
(* Authentication.authenticateInternal, accept, retrieveAssertion *)

AuthChallenge == "challenge-1"

AuthResult(outcome, username, payloadResponse) ==
  [ty |-> "AuthenticationResult", authenticated |-> outcome, username |-> username,
   payload |-> payloadResponse]

\* (the back quotes of the source's messages are written as single quotes)
MismatchReason(username) ==
  "Mismatching key signatures for '" \o username \o "'; re-authentication may be necessary"
MissingVerifyUrl == "Expected authentication verification URL. Has 'authenticate' been called?"

\* accept(accepted, failReason), awaited by authenticateInternal, which then ends by next
acceptAlwaysVerified(m, accepted, failReason, next) ==
  LET fr == [Top(m) EXCEPT !.pc = "accept", !.next = next]
      m1 == [m EXCEPT !.stack[Len(m.stack)] = fr, !.cnt.accept = @ + 1]
  IN  IF m.vurl = Undefined THEN Deliver(Pop(m1), Throw(MissingVerifyUrl))
      ELSE CallHelper(m1, "postUrl", m.vurl,
                      [ty |-> "notice", failReason |-> failReason, verified |-> TRUE])
accept(m, accepted, failReason, next) ==
  LET fr == [Top(m) EXCEPT !.pc = "accept", !.next = next]
      m1 == [m EXCEPT !.stack[Len(m.stack)] = fr, !.cnt.accept = @ + 1]
  IN  IF m.vurl = Undefined THEN Deliver(Pop(m1), Throw(MissingVerifyUrl))
      ELSE CallHelper(m1, "postUrl", m.vurl,
                      [ty |-> "notice", failReason |-> failReason, verified |-> accepted])

\* authenticateInternal from the assertion to its first await
AuthAssertion(m, data) ==
  LET m1 == [m EXCEPT !.vurl = data.verifyAuthenticationURL,
                      !.stack[Len(m.stack)].data = data]
      payload == Top(m).payload
  IN
  CASE data.authenticated = "cancelled" ->
         accept(m1, FALSE, "cancelled",
                Ret(AuthResult("Cancel", data.username, EmptyPayloadResponse)))
    [] data.authenticated = "reported" ->
         accept(m1, FALSE, "reported",
                Ret(AuthResult("Report", data.username, EmptyPayloadResponse)))
    [] data.authenticated \notin {"cancelled", "reported", "true"} ->
         accept(m1, FALSE, Undefined,
                Ret(AuthResult("Failure", data.username, EmptyPayloadResponse)))
    [] data.authenticated = "true" ->
         LET m2 == [m1 EXCEPT !.cnt.verifySig = @ + 1] IN
         IF ~verifySignature(data.keySignature, data.username, data.deviceId,
                             data.publicKey, data.publicKeyLevel)
         THEN accept(m2, FALSE, MismatchReason(data.username),
                     Throw(MismatchReason(data.username)))
         ELSE LET authenticated ==
                    RsaVerify(data.publicKey, AuthChallenge, data.authenticationSolution)
                  m3 == [m2 EXCEPT !.cnt.solution = @ + 1,
                                   !.stack[Len(m.stack)].authenticated = authenticated]
              IN  IF payload # NoPayload
                  THEN encryptPayloadData([m3 EXCEPT !.stack[Len(m.stack)].pc = "encrypt"],
                                          data.publicKey,
                                          [get |-> payload.get, set |-> payload.set])
                  ELSE accept(m3, authenticated, Undefined,
                              Ret(AuthResult(IF authenticated THEN "Success" ELSE "Failure",
                                             data.username, EmptyPayloadResponse)))

\* authenticateInternal from the device's payload response to the acceptance notice
AuthPayloadIgnoringSet(m, body) ==
  LET fr == Top(m)
      dec == decryptPayloadJson(fr.data.publicKey, body.payload)
  IN  IF dec.s = "throw" THEN Deliver(Pop(m), dec)
      ELSE LET payloadSetEmpty == DOMAIN fr.payload.set = {}
               presp == [get |-> dec.v.getResponse,
                         set |-> IF payloadSetEmpty THEN FALSE ELSE dec.v.setResponse]
           IN  accept(m, fr.authenticated, Undefined,
                      Ret(AuthResult(IF fr.authenticated THEN "Success" ELSE "Failure",
                                     fr.data.username, presp)))
AuthPayload(m, body) ==
  LET fr == Top(m)
      dec == decryptPayloadJson(fr.data.publicKey, body.payload)
  IN  IF dec.s = "throw" THEN Deliver(Pop(m), dec)
      ELSE LET payloadSetEmpty == DOMAIN fr.payload.set = {}
               presp == [get |-> dec.v.getResponse,
                         set |-> IF payloadSetEmpty THEN FALSE ELSE dec.v.setResponse]
               payloadValid == payloadSetEmpty \/ presp.set
           IN  accept(m, fr.authenticated /\ payloadValid, Undefined,
                      Ret(AuthResult(IF fr.authenticated THEN "Success" ELSE "Failure",
                                     fr.data.username, presp)))

\* authenticateInternal gets the result of the call it awaited
AuthResumed(m, sig) ==
  LET fr == Top(m) IN
  CASE sig.s = "throw" -> Deliver(Pop(m), sig)
    [] sig.s = "ret" /\ fr.pc = "accept" -> Deliver(Pop(m), fr.next)
    [] sig.s = "ret" /\ fr.pc = "encrypt" ->
         CallHelper([m EXCEPT !.stack[Len(m.stack)].pc = "payload"],
                    "postUrl", fr.data.payloadURL, [ty |-> "payload", payload |-> sig.v])
    [] sig.s = "ret" /\ fr.pc \in {"assertion", "payload"} /\ sig.v = UndefVal ->
         Deliver(Pop(m), Throw("TypeError"))
    [] sig.s = "ret" /\ fr.pc = "assertion" /\ sig.v # UndefVal -> AuthAssertion(m, sig.v)
    [] sig.s = "ret" /\ fr.pc = "payload" /\ sig.v # UndefVal -> AuthPayload(m, sig.v)

WaveRequest(solution) ==
  [ty |-> "assertionRequest", appChallengeSolution |-> solution,
   authenticationLevel |-> 1, authenticationChallenge |-> AuthChallenge,
   waitForAppSolution |-> TRUE]
NoSolution == RsaSign(Undefined, Undefined)

\* PushAuth.retrieveAssertion and WaveAuth.retrieveAssertion up to the first await
retrieveAssertionUnsolved(m) ==
  CASE m.auth.variant = "Push" -> CallHelper(m, "getUrl", "assertionUrl", UndefVal)
    [] m.auth.variant = "Wave" ->
         CallHelper(m, "postUrl", "assertionUrl", WaveRequest(NoSolution))
retrieveAssertion(m) ==
  CASE m.auth.variant = "Push" -> CallHelper(m, "getUrl", "assertionUrl", UndefVal)
    [] m.auth.variant = "Wave" /\ m.auth.appChallengeUrl # Undefined ->
         CallHelper([m EXCEPT !.stack = Append(@, [f |-> "retrieveAssertion"])],
                    "getUrl", m.auth.appChallengeUrl, UndefVal)
    [] m.auth.variant = "Wave" /\ m.auth.appChallengeUrl = Undefined ->
         CallHelper(m, "postUrl", "assertionUrl", WaveRequest(NoSolution))

\* WaveAuth.retrieveAssertion gets the app's challenge and returns the assertion POST
RetrieveResumed(m, sig) ==
  CASE sig.s = "throw" -> Deliver(Pop(m), sig)
    [] sig.s = "ret" /\ sig.v = UndefVal -> Deliver(Pop(m), Throw("TypeError"))
    [] sig.s = "ret" /\ sig.v # UndefVal ->
         CallHelper(Pop(m), "postUrl", "assertionUrl",
                    WaveRequest(RsaSign(ServiceKey, sig.v.appChallenge)))

\* authenticate(payload): authenticateInternal up to the request of retrieveAssertion
authenticateInternal(m, payload) ==
  retrieveAssertion([m EXCEPT !.stack = Append(@,
     [f |-> "authenticateInternal", pc |-> "assertion", payload |-> payload,
      data |-> UndefVal, authenticated |-> FALSE, next |-> NoOut])])

\* for (i = 0; i < 2; i++) { try { return await webClient...} catch { await refreshSession() } }
\* the helper at the top of the stack gets the answer of the transport
HelperAnsweredRetryAll(m, resp) ==
  IF resp.r = "ok" THEN Deliver(Pop(m), Ret(resp.body)) ELSE RefreshStart(m)
HelperAnswered(m, resp) ==
  CASE resp.r = "ok"      -> Deliver(Pop(m), Ret(resp.body))
    [] resp.r = "expired" -> RefreshStart(m)
    [] resp.r = "error"   -> Deliver(Pop(m), Throw(resp.e))

\* the helper at the top of the stack gets control back from the refreshSession it awaited
HelperResumed(m, sig) ==
  IF sig.s = "throw" THEN Deliver(Pop(m), sig)
  ELSE IF Top(m).i + 1 < 2 THEN HelperRetry(m)
  ELSE Deliver(Pop(m), Ret(UndefVal))

\* refreshSession gets the result of the helper it awaited
RefreshResumedStoringEarly(m, sig) ==
  LET fr == Top(m) IN
  CASE sig.s = "throw" -> Deliver(Pop(m), sig)
    [] sig.s = "ret" /\ sig.v = UndefVal -> Deliver(Pop(m), Throw("TypeError"))
    [] sig.s = "ret" /\ sig.v # UndefVal /\ fr.pc = "challenge" ->
         CallHelper([m EXCEPT !.stack[Len(m.stack)].pc = "solve", !.sid = sig.v.authToken],
                    "postUri", "sp/authenticate-service/",
                    [ty |-> "solve", authToken |-> sig.v.authToken,
                     spAuthChallengeSolution |-> <<"signed", sig.v.spAuthChallenge>>])
    [] sig.s = "ret" /\ sig.v # UndefVal /\ fr.pc = "solve" ->
         Deliver([Pop(m) EXCEPT !.sid = sig.v.sessionId], Ret(UndefVal))
RefreshResumed(m, sig) ==
  LET fr == Top(m) IN
  CASE sig.s = "throw" -> Deliver(Pop(m), sig)
    [] sig.s = "ret" /\ sig.v = UndefVal -> Deliver(Pop(m), Throw("TypeError"))
    [] sig.s = "ret" /\ sig.v # UndefVal /\ fr.pc = "challenge" ->
         CallHelper([m EXCEPT !.stack[Len(m.stack)].pc = "solve"],
                    "postUri", "sp/authenticate-service/",
                    [ty |-> "solve", authToken |-> sig.v.authToken,
                     spAuthChallengeSolution |-> <<"signed", sig.v.spAuthChallenge>>])
    [] sig.s = "ret" /\ sig.v # UndefVal /\ fr.pc = "solve" ->
         Deliver([Pop(m) EXCEPT !.sid = sig.v.sessionId], Ret(UndefVal))

\* Service.PushAuth and Service.WaveAuth: the request that starts an authentication
PushStart(username, device, authLevel) ==
  [ty |-> "authStart", interaction |-> "Push", deviceId |-> device.id,
   username |-> username, authenticationChallenge |-> AuthChallenge,
   authenticationLevel |-> authLevel]
WaveStart(authLevel) ==
  [ty |-> "authStart", interaction |-> "Wave", deviceId |-> Undefined,
   username |-> Undefined, authenticationChallenge |-> AuthChallenge,
   authenticationLevel |-> authLevel]

\* the solution Service.PushAuth posts to the challenge exchange URL
PushSolution(appChallenge, authLevel) ==
  [ty |-> "assertionRequest", appChallengeSolution |-> RsaSign(ServiceKey, appChallenge),
   authenticationLevel |-> authLevel, authenticationChallenge |-> AuthChallenge,
   waitForAppSolution |-> FALSE]

\* new PushAuth(this, ..., data.logId, authChallenge, authLevel, username, device,
\* data.statusURL, assertionUrl, undefined)
NewPushAuth(sid, data, fr) ==
  [ty |-> "PushAuth", service |-> ServiceObject(sid), logId |-> data.logId,
   authChallenge |-> AuthChallenge, authLevel |-> fr.authLevel, username |-> fr.username,
   device |-> fr.device, statusUrl |-> data.statusURL,
   assertionUrl |-> data.challengeExchangeURL, verifyAuthUrl |-> Undefined]
\* new WaveAuth(this, ..., data.logId, authChallenge, authLevel, data.directURL,
\* data.qrURL, data.statusURL, data.challengeExchangeURL, data.appAuthenticationURL,
\* undefined)
NewWaveAuth(sid, data, fr) ==
  [ty |-> "WaveAuth", service |-> ServiceObject(sid), logId |-> data.logId,
   authChallenge |-> AuthChallenge, authLevel |-> fr.authLevel,
   initiatorUrl |-> data.directURL, WaveCodeUrl |-> data.qrURL,
   statusUrl |-> data.statusURL, assertionUrl |-> data.challengeExchangeURL,
   appChallengeUrl |-> data.appAuthenticationURL, verifyAuthUrl |-> Undefined]

\* Service.PushAuth up to its first request
PushAuth(m, username, device, authLevel) ==
  CallHelper([m EXCEPT !.stack = Append(@,
                [f |-> "PushAuth", pc |-> "start", username |-> username,
                 device |-> device, authLevel |-> authLevel, data |-> UndefVal])],
             "postUri", "sp/authentication", PushStart(username, device, authLevel))

\* Service.PushAuth gets the result of the helper it awaited
PushAuthResumedUnsolved(m, sig) ==
  LET fr == Top(m) IN
  CASE sig.s = "throw" -> Deliver(Pop(m), sig)
    [] sig.s = "ret" /\ fr.pc = "start" /\ sig.v = UndefVal ->
         Deliver(Pop(m), Throw("TypeError"))
    [] sig.s = "ret" /\ fr.pc = "start" /\ sig.v # UndefVal ->
         Deliver(Pop(m), Ret(NewPushAuth(m.sid, sig.v, fr)))
PushAuthResumed(m, sig) ==
  LET fr == Top(m) IN
  CASE sig.s = "throw" -> Deliver(Pop(m), sig)
    [] sig.s = "ret" /\ fr.pc \in {"start", "challenge"} /\ sig.v = UndefVal ->
         Deliver(Pop(m), Throw("TypeError"))
    [] sig.s = "ret" /\ fr.pc = "start" /\ sig.v # UndefVal ->
         CallHelper([m EXCEPT !.stack[Len(m.stack)].pc = "challenge",
                              !.stack[Len(m.stack)].data = sig.v],
                    "getUrl", sig.v.appAuthenticationURL, UndefVal)
    [] sig.s = "ret" /\ fr.pc = "challenge" /\ sig.v # UndefVal ->
         CallHelper([m EXCEPT !.stack[Len(m.stack)].pc = "solve"],
                    "postUrl", fr.data.challengeExchangeURL,
                    PushSolution(sig.v.appChallenge, fr.authLevel))
    [] sig.s = "ret" /\ fr.pc = "solve" ->
         Deliver(Pop(m), Ret(NewPushAuth(m.sid, fr.data, fr)))

\* Service.revokeUser(username, devices) up to its request; devices is optional:
\* [given |-> FALSE] stands for the argument left out
RevokeRequest(username, devices) ==
  IF ~devices.given THEN [ty |-> "revokeRequest", username |-> username]
  ELSE [ty |-> "revokeRequest", username |-> username,
        deviceIds |-> [i \in DOMAIN devices.list |-> devices.list[i].id]]
revokeUser(m, username, devices) ==
  CallHelper([m EXCEPT !.stack = Append(@, [f |-> "revokeUser"])],
             "postUri", "sp/revoke-user/", RevokeRequest(username, devices))

\* Service.revokeUser gets the result of the POST it awaited: the result is not looked
\* at, an error is logged and thrown again
RevokeResumed(m, sig) ==
  CASE sig.s = "throw" -> Deliver(Pop(m), sig)
    [] sig.s = "ret" -> Deliver(Pop(m), Ret(UndefVal))

\* Service.WaveAuth up to its request
WaveAuth(m, authLevel) ==
  CallHelper([m EXCEPT !.stack = Append(@, [f |-> "WaveAuth", authLevel |-> authLevel])],
             "postUri", "sp/authentication", WaveStart(authLevel))

\* Service.WaveAuth gets the result of the helper it awaited
WaveAuthResumed(m, sig) ==
  CASE sig.s = "throw" -> Deliver(Pop(m), sig)
    [] sig.s = "ret" /\ sig.v = UndefVal -> Deliver(Pop(m), Throw("TypeError"))
    [] sig.s = "ret" /\ sig.v # UndefVal ->
         Deliver(Pop(m), Ret(NewWaveAuth(m.sid, sig.v, Top(m))))

\* Authentication.getState: the status text mapped to an AuthenticationState, or the
\* error thrown
AuthenticationState(statusText) ==
  CASE statusText = "initialised"          -> Ret("Initialised")
    [] statusText = "scanned"              -> Ret("Scanned")
    [] statusText = "pending sp solution"  -> Ret("PendingSPSolution")
    [] statusText = "pending app solution" -> Ret("PendingAppSolution")
    [] statusText = "done"                 -> Ret("Done")
    [] statusText = "not found"            -> Ret("NotFound")
    [] OTHER -> Throw("Unexpected status " \o statusText \o " for authentication (logId)")

\* PushAuth.getState and WaveAuth.getState: what they make of the state of the base class
OwnStateUnchanged(variant, state) == state
OwnState(variant, state) ==
  IF state = "PendingSPSolution"
  THEN (IF variant = "Push" THEN "Initialised" ELSE "Scanned")
  ELSE state

authGetState(m, variant) ==
  CallHelper([m EXCEPT !.stack = Append(@, [f |-> "Authentication.getState",
                                            variant |-> variant])],
             "getUrl", "authStatusUrl", UndefVal)

AuthGetStateResumed(m, sig) ==
  CASE sig.s = "throw" -> Deliver(Pop(m), sig)
    [] sig.s = "ret" /\ sig.v = UndefVal -> Deliver(Pop(m), Throw("TypeError"))
    [] sig.s = "ret" /\ sig.v # UndefVal ->
         LET state == AuthenticationState(sig.v.statusText) IN
         IF state.s = "throw" THEN Deliver(Pop(m), state)
         ELSE Deliver(Pop(m), Ret(Str(OwnState(Top(m).variant, state.v))))

\* A frame below the top gets the result of the call it awaited
Deliver(m, sig) ==
  IF m.stack = <<>> THEN [m EXCEPT !.out = sig]
  ELSE CASE Top(m).f = "helper"               -> HelperResumed(m, sig)
         [] Top(m).f = "refreshSession"       -> RefreshResumed(m, sig)
         [] Top(m).f = "encryptPayloadData"   -> EncryptResumed(m, sig)
         [] Top(m).f = "authenticateInternal" -> AuthResumed(m, sig)
         [] Top(m).f = "retrieveAssertion"    -> RetrieveResumed(m, sig)
         [] Top(m).f = "getUserDevices"       -> DevicesResumed(m, sig)
         [] Top(m).f = "validate"             -> ValidateResumed(m, sig)
         [] Top(m).f = "getState"             -> GetStateResumed(m, sig)
         [] Top(m).f = "Authentication.getState" -> AuthGetStateResumed(m, sig)
         [] Top(m).f = "confirm"              -> ConfirmResumed(m, sig)
         [] Top(m).f = "PushAuth"             -> PushAuthResumed(m, sig)
         [] Top(m).f = "createService"        -> CreateResumed(m, sig)
         [] Top(m).f = "WaveAuth"             -> WaveAuthResumed(m, sig)
         [] Top(m).f = "revokeUser"           -> RevokeResumed(m, sig)

\* The transport answers the request in flight of a task
Answered(m, resp) ==
  LET m1 == [m EXCEPT !.log[Len(m.log)].resp = resp] IN
  CASE Top(m).f = "serverInformation" -> ServerInfoAnswered(m1, resp)
    [] Top(m).f = "createService"     -> CreateAnswered(m1, resp)
    [] OTHER                          -> HelperAnswered(m1, resp)

----------------------------------------------------------------------------
(* The state machine *)

Machine(t) ==
  [sid |-> sessionId, psize |-> payloadSize, auth |-> authObj, vurl |-> verifyAuthUrl,
   enr |-> enrolment,
   stack |-> stack[t], log |-> log[t], out |-> out[t], cnt |-> cnt[t]]

Commit(t, m) ==
  /\ sessionId' = m.sid
  /\ payloadSize' = m.psize
  /\ authObj' = m.auth
  /\ verifyAuthUrl' = m.vurl
  /\ enrolment' = m.enr
  /\ stack' = [stack EXCEPT ![t] = m.stack]
  /\ log'   = [log EXCEPT ![t] = m.log]
  /\ out'   = [out EXCEPT ![t] = m.out]
  /\ cnt'   = [cnt EXCEPT ![t] = m.cnt]

Fresh(t) == [Machine(t) EXCEPT !.stack = <<>>, !.log = <<>>, !.out = NoOut, !.cnt = ZeroCnt]

Idle(t) == stack[t] = <<>>

Nest(t) == Cardinality({k \in 1..Len(stack[t]) : stack[t][k].f = "refreshSession"})

\* The device enrolled as alice's, and what it may assert
Username == "Alice"
DeviceId == "dev1"
DeviceKey == "device-key-1"
DeviceLevel == 1

AssertionBodies ==
  { [ty |-> "assertion", authenticated |-> a, username |-> Username, deviceId |-> DeviceId,
     publicKey |-> DeviceKey, publicKeyLevel |-> DeviceLevel,
     keySignature |-> calculateSignature(Username, DeviceId, DeviceKey, lvl),
     authenticationSolution |-> RsaSign(DeviceKey, ch),
     verifyAuthenticationURL |-> v, payloadURL |-> "payloadUrl"] :
       a \in {"true", "cancelled", "reported", "false"}, lvl \in {DeviceLevel, 2},
       ch \in {AuthChallenge, "challenge-0"}, v \in {Undefined, "", "verifyUrl"} }

\* The canonical assertion of each kind: a device answers one solution and one key
\* signature; they matter only to an assertion with authenticated = "true"
Canonical(body) ==
  body.authenticated # "true" =>
     /\ body.keySignature = calculateSignature(Username, DeviceId, DeviceKey, DeviceLevel)
     /\ body.authenticationSolution = RsaSign(DeviceKey, AuthChallenge)

PayloadResponseBodies ==
  { [ty |-> "payloadResponse",
     payload |-> Envelope(ServiceKey, signer,
                          JsonStringify([getResponse |-> [pin |-> "1234"],
                                         setResponse |-> ack]))] :
       signer \in {DeviceKey, StrangerKey}, ack \in BOOLEAN }

\* What getUserDevices may be told: up to MaxDevices devices, each with a key for every
\* level and, per level, a signature that verifies, one made for another level, or none
SigKinds == {"good", "other", "none"}
DeviceJson(i, kinds) ==
  LET id == IF i = 1 THEN "dev1" ELSE IF i = 2 THEN "dev2" ELSE "dev3"
      keys == [l \in Levels |-> IF l = 1 THEN "device-key-1" ELSE "device-key-2"]
  IN  [deviceId |-> id, friendlyName |-> "phone", publicKeys |-> keys,
       signatures |-> [l \in {x \in Levels : kinds[x] # "none"} |->
          calculateSignature(Username, id, keys[l],
                             IF kinds[l] = "good" THEN l ELSE l + 2)]]
DeviceLists ==
  UNION { { [i \in 1..n |-> DeviceJson(i, ks[i])] : ks \in [1..n -> [Levels -> SigKinds]] } :
          n \in 0..MaxDevices }

ValidateBodies ==
  { [ty |-> "validation", failReason |-> Undefined, identiconURL |-> "identiconUrl",
     publicKeys |-> [l \in Levels |-> IF l = 1 THEN "device-key-1" ELSE "device-key-2"],
     deviceId |-> d, confirmationURL |-> c] :
       d \in {DeviceId, "dev2"}, c \in {Undefined, "", "confirmUrl"} }
  \cup { [ty |-> "validation", failReason |-> "timed out", identiconURL |-> Undefined,
          publicKeys |-> [l \in Levels |-> IF l = 1 THEN "device-key-1" ELSE "device-key-2"],
          deviceId |-> "dev2", confirmationURL |-> "confirmUrl"] }

\* The status response read by Enrolment.getState
StatusBodies ==
  { [ty |-> "status", QREnrolStatus |-> q] :
       q \in {"initialised", "scanned", "validated", "confirm", "failed", "expired",
                "confirmed"} }

\* The status response read by Authentication.getState
AuthStatusBodies ==
  { [ty |-> "status", statusText |-> q] :
       q \in {"initialised", "scanned", "pending sp solution", "pending app solution",
              "done", "not found", "expired", "Done"} }

ConfirmBodies ==
  { [ty |-> "confirmation", payload |-> UndefVal, payloadVerifyURL |-> Undefined] }
  \cup { [ty |-> "confirmation",
          payload |-> Envelope(ServiceKey, DeviceKey,
                              JsonStringify([setResponse |-> ack])),
          payloadVerifyURL |-> v] : ack \in BOOLEAN, v \in {Undefined, "payloadVerifyUrl"} }

\* What the server may answer to the request that starts an authentication: the URLs
\* of the exchange; the URL of the app's challenge is there for a push, and for a wave
\* in bidirectional mode
AuthStartBodies(interaction) ==
  { [ty |-> "authStarted", logId |-> "logId", statusURL |-> "authStatusUrl",
     challengeExchangeURL |-> "assertionUrl", appAuthenticationURL |-> u,
     directURL |-> "initiatorUrl", qrURL |-> "WaveCodeUrl"] :
    u \in IF interaction = "Push" THEN {"appChallengeUrl"}
          ELSE {Undefined, "appChallengeUrl"} }

\* the request in flight is the solution Service.PushAuth posts
IsPushSolution(fr) == fr.kind = "postUrl" /\ fr.form.ty = "assertionRequest"
                         /\ ~fr.form.waitForAppSolution

\* What the server may answer to a request, by the URL asked
OkBodies(t) ==
  LET fr == stack[t][Len(stack[t])] IN
  CASE fr.url = "target" -> {TargetBody}
    [] fr.url = "sp/authentication" -> AuthStartBodies(fr.form.interaction)
    [] fr.url = "sp/revoke-user/" -> {[ty |-> "ack"]}
    [] fr.url = "sp/create-service" -> {[ty |-> "created", serviceId |-> "svc9"]}
    [] fr.url = "assertionUrl" /\ IsPushSolution(fr) -> {[ty |-> "ack"]}
    [] fr.url = "sp/authenticate-service/" \o ServiceId -> {ChallengeBody}
    [] fr.url = "sp/authenticate-service/" -> {SessionBody(NextToken(sessionId))}
    [] fr.url = "info" -> ServerInfoBodies
    [] fr.url = "assertionUrl" /\ ~IsPushSolution(fr) ->
         {b \in AssertionBodies : Canonical(b)}
    [] fr.url = "appChallengeUrl" -> {[ty |-> "appChallenge", appChallenge |-> "app-challenge"]}
    [] fr.url = "payloadUrl" -> PayloadResponseBodies
    [] fr.url \in {"verifyUrl", "", "payloadVerifyUrl"} -> {[ty |-> "ack"]}
    [] fr.url = "sp/user-devices/" \o Username -> {[ty |-> "devices", devices |-> d] : d \in DeviceLists}
    [] fr.url = "validateUrl" -> ValidateBodies
    [] fr.url = "statusUrl" -> StatusBodies
    [] fr.url = "authStatusUrl" -> AuthStatusBodies
    [] fr.url = "confirmUrl" -> ConfirmBodies

\* The JSON values handed to encryptPayloadData: {get, set} by authenticate, {set} by
\* confirm
EncryptInputs ==
  { [get |-> <<"pin">>, set |-> EmptyDict],
    [get |-> <<"pin">>, set |-> [token |-> "abc"]],
    [get |-> <<"pin", "otp">>, set |-> [token |-> "abc"]],
    [set |-> [token |-> "abc"]] }

NoAuth == [variant |-> "none", appChallengeUrl |-> Undefined]
AuthObjects == {[variant |-> "Push", appChallengeUrl |-> Undefined],
                [variant |-> "Wave", appChallengeUrl |-> Undefined],
                [variant |-> "Wave", appChallengeUrl |-> "appChallengeUrl"]}
\* new Enrolment(...) with the defaults of its constructor
NewEnrolment == [publicKeys |-> << >>, deviceId |-> "", confirmationUrl |-> ""]

\* The Service and its Client as constructed, an Enrolment as constructed, no
\* Authentication object yet
Init ==
  /\ stub \in {"free", "always"}
  /\ sessionId \in {NullTok, "t0"}
  /\ payloadSize = UndefinedSize
  /\ authObj = NoAuth
  /\ verifyAuthUrl = Undefined
  /\ enrolment = NewEnrolment
  /\ op = [t \in Tasks |-> [name |-> "none"]]
  /\ stack = [t \in Tasks |-> <<>>]
  /\ log = [t \in Tasks |-> <<>>]
  /\ out = [t \in Tasks |-> NoOut]
  /\ cnt = [t \in Tasks |-> ZeroCnt]
  /\ expired = 0
  /\ deep = 0

\* The caller makes one call, or goes on with a call that depends on what the calls
\* before stored: authenticate after serverInformation, and the calls on one Enrolment
\* object in any order
EnrolmentCalls == {"validate", "confirm", "getState", "serialize"}
Follows ==
  {<<"serverInformation", "authenticate">>, <<"serverInformation", "serverInformation">>,
   <<"serverInformation", "encryptPayloadData">>,
   <<"encryptPayloadData", "decryptPayloadJson">>,
   <<"helper", "serializeObject">>, <<"getUserDevices", "serializeObject">>,
   <<"authenticate", "serializeObject">>,
   <<"serialize", "deserialize">>, <<"serializeObject", "deserialize">>}
    \cup (EnrolmentCalls \X EnrolmentCalls)
MayStart(t, name) ==
  /\ Idle(t)
  /\ op[t].name = "none" \/ <<op[t].name, name>> \in Follows

\* A caller invokes one of the access helpers of the Service
StartHelper(t) ==
  /\ MayStart(t, "helper")
  /\ \E kind \in HelperKinds :
       /\ op' = [op EXCEPT ![t] = [name |-> "helper", kind |-> kind]]
       /\ Commit(t, CallHelper(Fresh(t), kind, "target",
                               IF Method(kind) = "POST" THEN [ty |-> "form"] ELSE UndefVal))
  /\ expired' = 0
  /\ UNCHANGED <<stub, deep>>

\* A caller invokes Client.serverInformation()
StartServerInformation(t) ==
  /\ MayStart(t, "serverInformation")
  /\ op' = [op EXCEPT ![t] = [name |-> "serverInformation", size |-> payloadSize]]
  /\ Commit(t, ServerInfoStart(Fresh(t)))
  /\ expired' = 0
  /\ UNCHANGED <<stub, deep>>

\* A caller invokes Client.createService(serviceName) on a Client that validates the
\* server version or on one that does not
StartCreateService(t) ==
  /\ MayStart(t, "createService")
  /\ \E validateServerVersion \in BOOLEAN :
       /\ op' = [op EXCEPT ![t] = [name |-> "createService",
                                   validate |-> validateServerVersion]]
       /\ Commit(t, createService(Fresh(t), validateServerVersion))
  /\ expired' = 0
  /\ UNCHANGED <<stub, deep>>

\* A caller invokes Service.encryptPayloadData(recipientPublicKey, json)
StartEncrypt(t) ==
  /\ MayStart(t, "encryptPayloadData")
  /\ \E recipient \in {ServiceKey, DeviceKey}, json \in EncryptInputs :
       /\ op' = [op EXCEPT ![t] = [name |-> "encryptPayloadData", recipient |-> recipient,
                                   json |-> json, size |-> payloadSize]]
       /\ Commit(t, encryptPayloadData(Fresh(t), recipient, json))
  /\ expired' = 0
  /\ UNCHANGED <<stub, deep>>

\* What may happen to an envelope on its way: nothing; a hex digit of its key field
\* replaced by another; the letters among the hex digits of its key field put in upper
\* case; its data field cut down to the 16 bytes of the IV, or to nothing
Tampers == {"none", "digit", "case", "iv only", "no data"}
Tampered(envelope, how) ==
  CASE how = "none"  -> envelope
    [] how = "iv only" ->
         [envelope EXCEPT !.data = ToHex([FromHex(@) EXCEPT !.aes = "", !.len = IvBytes])]
    [] how = "no data" ->
         [envelope EXCEPT !.data = ToHex([FromHex(@) EXCEPT !.aes = "", !.len = 0])]
    [] how = "digit" ->
         [envelope EXCEPT !.key = ToHex([FromHex(@) EXCEPT !.aesKey = "another-key"])]
    [] how = "case"  -> [envelope EXCEPT !.key = ToUpperCase(@)]

\* A caller hands the envelope encryptPayloadData returned, as it is or with its key
\* field changed, to decryptPayloadJson together with a public key of the sender
StartDecrypt(t) ==
  /\ MayStart(t, "decryptPayloadJson")
  /\ out[t].s = "ret"
  /\ \E how \in Tampers, initiator \in {ServiceKey, StrangerKey} :
       LET json == Tampered(out[t].v, how) IN
       /\ op' = [op EXCEPT ![t] = [name |-> "decryptPayloadJson", sent |-> op[t].json,
                                   recipient |-> op[t].recipient, how |-> how,
                                   initiator |-> initiator, envelope |-> json]]
       /\ Commit(t, Deliver(Fresh(t), decryptPayloadJson(initiator, json)))
  /\ expired' = 0
  /\ UNCHANGED <<stub, deep>>

\* A caller invokes authenticate(payload) on a PushAuth or WaveAuth object
StartAuthenticate(t) ==
  /\ MayStart(t, "authenticate")
  /\ \E payload \in PayloadArgs, a \in AuthObjects :
       /\ op' = [op EXCEPT ![t] = [name |-> "authenticate", payload |-> payload,
                                   size |-> payloadSize]]
       /\ Commit(t, authenticateInternal([Fresh(t) EXCEPT !.auth = a, !.vurl = Undefined],
                                         payload))
  /\ expired' = 0
  /\ UNCHANGED <<stub, deep>>

\* A caller invokes Service.getUserDevices(username)
StartGetUserDevices(t) ==
  /\ MayStart(t, "getUserDevices")
  /\ op' = [op EXCEPT ![t] = [name |-> "getUserDevices", username |-> Username]]
  /\ Commit(t, getUserDevices(Fresh(t), Username))
  /\ expired' = 0
  /\ UNCHANGED <<stub, deep>>

\* A caller invokes Enrolment.validate()
StartValidate(t) ==
  /\ MayStart(t, "validate")
  /\ op' = [op EXCEPT ![t] = [name |-> "validate", before |-> enrolment]]
  /\ Commit(t, validate(Fresh(t)))
  /\ expired' = 0
  /\ UNCHANGED <<stub, deep>>

\* A caller invokes Enrolment.getState()
StartGetState(t) ==
  /\ MayStart(t, "getState")
  /\ op' = [op EXCEPT ![t] = [name |-> "getState", before |-> enrolment]]
  /\ Commit(t, getState(Fresh(t)))
  /\ expired' = 0
  /\ UNCHANGED <<stub, deep>>

\* A caller invokes getState() on a PushAuth or a WaveAuth
StartAuthGetState(t) ==
  /\ MayStart(t, "authGetState")
  /\ \E variant \in {"Push", "Wave"} :
       /\ op' = [op EXCEPT ![t] = [name |-> "authGetState", variant |-> variant]]
       /\ Commit(t, authGetState(Fresh(t), variant))
  /\ expired' = 0
  /\ UNCHANGED <<stub, deep>>

\* A caller invokes Enrolment.serialize()
StartSerialize(t) ==
  /\ MayStart(t, "serialize")
  /\ op' = [op EXCEPT ![t] = [name |-> "serialize", before |-> enrolment]]
  /\ Commit(t, Deliver(Fresh(t), Ret(serialize(enrolment))))
  /\ expired' = 0
  /\ UNCHANGED <<stub, deep>>

\* What a signature is made over and checked against: the Service's URL and id, and
\* the four arguments
SignatureInputs ==
  [url : {BaseUrl, "HTTPS://CS/", "https://other/"}, id : {ServiceId, "svc2"},
   username : {"Alice", "alice", "bob"}, deviceId : {"dev1", "dev2"},
   key : DeviceKeys, level : Levels]
Fields == {"url", "id", "username", "deviceId", "key", "level"}
Differing(a, b) == {f \in Fields : a[f] # b[f]}

\* the keys a signature handed to verifySignature may have been made with: the
\* Service's, as calculateSignature does, or a device's
Signers == {ServiceKey} \cup DeviceKeys
\* the signature made with the signer's key over the signature data of the values a
Signature(signer, a) ==
  IF signer = ServiceKey
  THEN SignedBy(ServiceOf(a.url, a.id), a.username, a.deviceId, a.key, a.level)
  ELSE RsaSign(signer, SignatureData(ServiceOf(a.url, a.id),
                                     a.username, a.deviceId, a.key, a.level))

\* A caller has a signature made and a Service verify it, the two sets of values equal
\* or differing in one of the six
StartVerifySignature(t) ==
  /\ MayStart(t, "verifySignature")
  /\ \E a \in SignatureInputs, b \in SignatureInputs, signer \in Signers :
       /\ Cardinality(Differing(a, b)) <= 1
       /\ op' = [op EXCEPT ![t] = [name |-> "verifySignature", signed |-> a,
                                   checked |-> b, signer |-> signer]]
       /\ LET signature == Signature(signer, a)
              verified  == VerifiedBy(ServiceOf(b.url, b.id), signature,
                                      b.username, b.deviceId, b.key, b.level)
          IN  Commit(t, Deliver(Fresh(t), Ret([ty |-> "boolean", b |-> verified])))
  /\ expired' = 0
  /\ UNCHANGED <<stub, deep>>

\* The objects a caller holds besides the Enrolment: the Service, the devices
\* getUserDevices returned, and the PushAuth or WaveAuth, new or after authenticate
PushDevice == Device(DeviceId, "phone", [l \in Levels |-> IF l = 1 THEN DeviceKey ELSE "device-key-2"])
AuthenticationObject(service, a, vurl) ==
  IF a.variant = "Push" THEN PushAuthObject(service, PushDevice, vurl)
  ELSE WaveAuthObject(service, a.appChallengeUrl, vurl)
Held(t) ==
  LET service == ServiceObject(sessionId) IN
  {service}
    \cup (IF op[t].name = "getUserDevices" /\ out[t].s = "ret"
          THEN {out[t].v[i] : i \in DOMAIN out[t].v} ELSE {})
    \cup (IF op[t].name = "authenticate"
          THEN {AuthenticationObject(service, authObj, verifyAuthUrl)}
          ELSE {AuthenticationObject(service, a, Undefined) : a \in AuthObjects})

\* A caller invokes serialize() on a Service, a Device, a PushAuth or a WaveAuth
StartSerializeObject(t) ==
  /\ MayStart(t, "serializeObject")
  /\ \E x \in Held(t) :
       /\ op' = [op EXCEPT ![t] = [name |-> "serializeObject", x |-> x]]
       /\ Commit(t, Deliver(Fresh(t), Ret(serializeObject(x))))
  /\ expired' = 0
  /\ UNCHANGED <<stub, deep>>

\* What a deserializer may be handed in place of the buffer serialize returned
Mangles == {"none", "no array", "empty", "longer", "header", "version", "legacy"}
Mangled(data, how) ==
  CASE how = "none"     -> data
    [] how = "no array" -> NotAnArray
    [] how = "empty"    -> Encoded(<< >>)
    [] how = "longer"   -> Encoded(Append(data.arr, Null))
    [] how = "header"   -> Encoded([data.arr EXCEPT ![1] = "CiphUsrA"])
    [] how = "version"  -> Encoded([data.arr EXCEPT ![2] = "5.0.0"])
    [] how = "legacy"   ->
         Encoded(<<data.arr[1], data.arr[3], data.arr[4], Null, data.arr[6]>>)

\* A caller hands the buffer serialize returned, or another in its place, to the
\* deserializer of the class: Client.deserializeService, Device.deserialize,
\* Service.deserializeEnrolment, deserializePushAuth or deserializeWaveAuth
StartDeserialize(t) ==
  /\ MayStart(t, "deserialize")
  /\ out[t].s = "ret"
  /\ LET service == ServiceObject(sessionId)
         x == IF op[t].name = "serialize" THEN EnrolmentObject(service, op[t].before)
              ELSE op[t].x
     IN  \E how \in Mangles :
           /\ how = "legacy" => x.ty = "Service"
           /\ op' = [op EXCEPT ![t] = [name |-> "deserialize", x |-> x, how |-> how,
                                       data |-> Mangled(out[t].v, how)]]
           /\ Commit(t, Deliver(Fresh(t), deserializeAs(x.ty, service, Mangled(out[t].v, how))))
  /\ expired' = 0
  /\ UNCHANGED <<stub, deep>>

\* A caller invokes Enrolment.confirm(success, payload)
StartConfirm(t) ==
  /\ MayStart(t, "confirm")
  /\ \E success \in BOOLEAN, payload \in PayloadArgs :
       /\ op' = [op EXCEPT ![t] = [name |-> "confirm", success |-> success,
                                   payload |-> payload, before |-> enrolment,
                                   size |-> payloadSize]]
       /\ Commit(t, confirm(Fresh(t), success, payload))
  /\ expired' = 0
  /\ UNCHANGED <<stub, deep>>

\* A caller invokes Service.PushAuth(username, device, ..., authLevel)
StartPushAuth(t) ==
  /\ MayStart(t, "PushAuth")
  /\ \E authLevel \in Levels :
       /\ op' = [op EXCEPT ![t] = [name |-> "PushAuth", username |-> Username,
                                   device |-> PushDevice, authLevel |-> authLevel]]
       /\ Commit(t, PushAuth(Fresh(t), Username, PushDevice, authLevel))
  /\ expired' = 0
  /\ UNCHANGED <<stub, deep>>

\* A caller invokes Service.revokeUser(username, devices)
StartRevokeUser(t) ==
  /\ MayStart(t, "revokeUser")
  /\ \E devices \in {[given |-> FALSE], [given |-> TRUE, list |-> <<PushDevice>>]} :
       /\ op' = [op EXCEPT ![t] = [name |-> "revokeUser", username |-> Username,
                                   devices |-> devices]]
       /\ Commit(t, revokeUser(Fresh(t), Username, devices))
  /\ expired' = 0
  /\ UNCHANGED <<stub, deep>>

\* A caller invokes Service.WaveAuth(..., authLevel)
StartWaveAuth(t) ==
  /\ MayStart(t, "WaveAuth")
  /\ \E authLevel \in Levels :
       /\ op' = [op EXCEPT ![t] = [name |-> "WaveAuth", authLevel |-> authLevel]]
       /\ Commit(t, WaveAuth(Fresh(t), authLevel))
  /\ expired' = 0
  /\ UNCHANGED <<stub, deep>>

\* The transport answers with a body
AnswerOk(t) ==
  /\ ~Idle(t) /\ stub = "free"
  /\ \E body \in OkBodies(t) : Commit(t, Answered(Machine(t), Ok(body)))
  /\ UNCHANGED <<stub, op, expired, deep>>

\* The transport raises TimeoutError or a generic error
AnswerError(t) ==
  /\ ~Idle(t) /\ stub = "free"
  /\ \E e \in OtherErrors : Commit(t, Answered(Machine(t), Failed(e)))
  /\ UNCHANGED <<stub, op, expired, deep>>

\* The transport raises SessionExpiredError
AnswerExpired(t) ==
  /\ ~Idle(t)
  /\ Nest(t) < MaxNest
  /\ stub = "free" => expired < MaxExpired
  /\ Commit(t, Answered(Machine(t), SessionExpired))
  /\ expired' = IF stub = "free" THEN expired + 1 ELSE expired
  /\ UNCHANGED <<stub, op, deep>>

\* The "always" stub beyond MaxNest open refreshSessions: the request in flight is the
\* challenge request of the innermost refreshSession, it is answered session-expired,
\* and one more refreshSession with the same request opens above it.  Only the parity
\* of the depth is kept.
AnswerExpiredDeep(t) ==
  /\ ~Idle(t)
  /\ stub = "always"
  /\ Nest(t) = MaxNest
  /\ deep' = 1 - deep
  /\ UNCHANGED <<stub, sessionId, payloadSize, authObj, verifyAuthUrl, enrolment, op, stack,
                 log, out, cnt, expired>>

Next ==
  \E t \in Callers :
    \/ StartHelper(t)
    \/ StartServerInformation(t)
    \/ StartEncrypt(t)
    \/ StartDecrypt(t)
    \/ StartAuthenticate(t)
    \/ StartGetUserDevices(t)
    \/ StartValidate(t)
    \/ StartGetState(t)
    \/ StartAuthGetState(t)
    \/ StartSerialize(t)
    \/ StartConfirm(t)
    \/ StartSerializeObject(t)
    \/ StartDeserialize(t)
    \/ StartVerifySignature(t)
    \/ StartPushAuth(t)
    \/ StartWaveAuth(t)
    \/ StartCreateService(t)
    \/ StartRevokeUser(t)
    \/ AnswerOk(t)
    \/ AnswerError(t)
    \/ AnswerExpired(t)
    \/ AnswerExpiredDeep(t)

Spec == Init /\ [][Next]_vars

\* The calls of the access helpers alone, where every request is answered and a
\* continuation that can run does run
HelperNext ==
  \E t \in Callers :
    \/ StartHelper(t)
    \/ AnswerOk(t)
    \/ AnswerError(t)
    \/ AnswerExpired(t)
    \/ AnswerExpiredDeep(t)

FairSpec == Init /\ [][HelperNext]_vars /\ WF_vars(HelperNext)

----------------------------------------------------------------------------
(* Calls in flight at once on one Service *)

\* Two calls are in flight at once on one Service: task 1 validates an Enrolment, task 2
\* calls an access helper.  A task runs from one answer of the transport to its next
\* request, and the two take turns in any order; each makes its one call.
SharedInit == Init /\ stub = "free"

ValidateInFlight == op[1].name = "none" /\ StartValidate(1)
HelperInFlight == op[2].name = "none" /\ StartHelper(2)

SharedNext ==
  \/ ValidateInFlight
  \/ HelperInFlight
  \/ \E t \in Tasks :
       \/ AnswerOk(t)
       \/ AnswerError(t)
       \/ AnswerExpired(t)

SharedSpec == SharedInit /\ [][SharedNext]_vars

----------------------------------------------------------------------------
(* Version: the pure functions, applied to inputs the caller chooses *)

\* parseInt(a, 10) on the components of the model: a number, or NaN
Components == {"0", "1", "2", "9", "x"}
ParseInt(a) ==
  CASE a = "0" -> [nan |-> FALSE, n |-> 0]
    [] a = "1" -> [nan |-> FALSE, n |-> 1]
    [] a = "2" -> [nan |-> FALSE, n |-> 2]
    [] a = "9" -> [nan |-> FALSE, n |-> 9]
    [] OTHER   -> [nan |-> TRUE, n |-> 0]
\* the operator > of the language on numbers: false when either is NaN
Greater(a, b) == ~a.nan /\ ~b.nan /\ a.n > b.n

\* Version.fromString of a.b.c, given as its three components
fromString(version) == [ty |-> "Version", digits |-> [i \in 1..3 |-> ParseInt(version[i])]]

\* Version.compare: the loop over the digits
RECURSIVE CompareFrom(_, _, _)
CompareFrom(lhs, rhs, index) ==
  IF index > Len(lhs.digits) THEN 0
  ELSE IF Greater(lhs.digits[index], rhs.digits[index]) THEN 1
  ELSE IF Greater(rhs.digits[index], lhs.digits[index]) THEN -1
  ELSE CompareFrom(lhs, rhs, index + 1)
compare(lhs, rhs) == CompareFrom(lhs, rhs, 1)
lessThan(lhs, rhs) == compare(lhs, rhs) = -1
greaterThan(lhs, rhs) == compare(lhs, rhs) = 1
equalTo(lhs, rhs) == compare(lhs, rhs) = 0
lessThanOrEqual(lhs, rhs) == compare(lhs, rhs) # 1

\* A caller parses two version strings and compares the versions
StartCompare(t) ==
  /\ MayStart(t, "compare")
  /\ \E a \in [1..3 -> Components], b \in [1..3 -> Components] :
       LET lhs == fromString(a)
           rhs == fromString(b)
       IN  /\ op' = [op EXCEPT ![t] = [name |-> "compare", a |-> a, b |-> b]]
           /\ Commit(t, Deliver(Fresh(t),
                  Ret([ty |-> "comparison", compare |-> compare(lhs, rhs),
                       reverse |-> compare(rhs, lhs), lessThan |-> lessThan(lhs, rhs),
                       greaterThan |-> greaterThan(lhs, rhs), equalTo |-> equalTo(lhs, rhs),
                       lessThanOrEqual |-> lessThanOrEqual(lhs, rhs)])))
  /\ expired' = 0
  /\ UNCHANGED <<stub, deep>>

\* the values two enrolments may be bound to: Services of one server or two, users
\* and devices whose names and ids are free strings
BoundInputs ==
  [url : {BaseUrl, "HTTPS://CS/"}, id : {ServiceId, "svc2"},
   username : {"Alice", "alice", "2alice"}, deviceId : {"dev1", "dev2"},
   key : DeviceKeys, level : Levels]

\* A caller has the Service of a sign for the values a, and the Service of b compute the
\* signature data of the values b and verify that signature for them
StartSignatureData(t) ==
  /\ MayStart(t, "calculateSignatureData")
  /\ \E a \in BoundInputs, b \in BoundInputs :
       /\ op' = [op EXCEPT ![t] = [name |-> "calculateSignatureData", a |-> a, b |-> b]]
       /\ LET A == ServiceOf(a.url, a.id)
              B == ServiceOf(b.url, b.id)
          IN  Commit(t, Deliver(Fresh(t),
                Ret([ty |-> "signatures",
                     first |-> SignatureData(A, a.username, a.deviceId, a.key, a.level),
                     second |-> SignatureData(B, b.username, b.deviceId, b.key, b.level),
                     verified |-> VerifiedBy(B, SignedBy(A, a.username, a.deviceId,
                                                         a.key, a.level),
                                             b.username, b.deviceId, b.key, b.level)])))
  /\ expired' = 0
  /\ UNCHANGED <<stub, deep>>

PureNext == \E t \in Callers : StartCompare(t) \/ StartSignatureData(t)

PureSpec == Init /\ [][PureNext]_vars

----------------------------------------------------------------------------
(* Properties *)

Done(t) == out[t] # NoOut
Returned(t) == out[t].s = "ret"
Threw(t) == out[t].s = "throw"
Last(t) == log[t][Len(log[t])]
Entries(t) == 1..Len(log[t])
\* the attempts of the request the caller asked for (not those of a refreshSession)
OwnAttempts(t) == {k \in Entries(t) : log[t][k].nest = 0}
ExpiredAnswers(t) == {k \in Entries(t) : log[t][k].resp.r = "expired"}

\* C1's case: the first attempt is answered session-expired, the two requests of the
\* refreshSession it triggers are answered with a body, the second attempt too
OneExpiryThenSuccess(t) ==
  /\ op[t].name = "helper" /\ Done(t)
  /\ Len(log[t]) >= 2
  /\ log[t][1].resp.r = "expired"
  /\ \A k \in Entries(t) : log[t][k].nest > 0 => log[t][k].resp.r = "ok"
  /\ Last(t).nest = 0 /\ Last(t).resp.r = "ok"

\* C1: session-expired on the first attempt, refreshSession succeeds, the second attempt
\* succeeds: the helper returns the second attempt's response, refreshSession ran exactly
\* once, and the second attempt carries the session id that refresh stored.
C1_RetryUsesRefreshedToken ==
  \A t \in Tasks : OneExpiryThenSuccess(t) =>
     /\ out[t] = Ret(Last(t).resp.body)
     /\ cnt[t].refresh = 1
     /\ Len(log[t]) = 4
     /\ OwnAttempts(t) = {1, 4}
     /\ log[t][3].method = "POST" /\ log[t][3].url = BaseUrl \o "sp/authenticate-service/"
     /\ log[t][4].tok = SessionHeader(log[t][3].resp.body.sessionId)
     /\ log[t][4].tok = SessionHeader(sessionId)
     /\ log[t][4].url = log[t][1].url /\ log[t][4].form = log[t][1].form

C1_Witness ==
  \E t \in Tasks : OneExpiryThenSuccess(t) /\ log[t][4].tok # log[t][1].tok

\* C2 (as claimed): under the stub that raises session-expired on every request, a call
\* of an access helper ends, with undefined, after exactly two attempts of its request.
C2_AlwaysExpiredResolves ==
  \A t \in Tasks :
    (stub = "always" /\ op[t].name = "helper")
      ~> (op[t].name = "helper" /\ out[t] = Ret(UndefVal)
            /\ Cardinality(OwnAttempts(t)) = 2)

\* C3: an error other than session-expired is never retried: it ends the call at once,
\* rethrown as it is, without a refreshSession and without another attempt; a failing
\* refreshSession ends the call too, and the request is not attempted again.
C3_OtherErrorsPropagate ==
  \A t \in Tasks :
    /\ \A k \in Entries(t) : log[t][k].resp.r = "error" =>
          /\ k = Len(log[t])
          /\ stack[t] = <<>>
          /\ out[t] = Throw(log[t][k].resp.e)
    /\ op[t].name = "helper" => cnt[t].refresh = Cardinality(ExpiredAnswers(t))
    /\ (op[t].name = "helper" /\ Threw(t)) =>
          \/ Last(t).resp = Failed(out[t].e)
          \/ out[t].e = "TypeError" /\ Last(t).nest > 0 /\ Last(t).resp.r = "ok"

C3_Witness ==
  \E t \in Tasks :
    /\ op[t].name = "helper" /\ Threw(t)
    /\ Last(t).resp = Failed("TimeoutError")
    /\ Last(t).nest > 0
    /\ Cardinality(OwnAttempts(t)) = 1

----------------------------------------------------------------------------
(* Properties of authenticate *)

Authenticating(t) == op[t].name = "authenticate"
\* the entries of the log by what was asked
Asked(t, url) == {k \in Entries(t) : log[t][k].url = url}
Notices(t) == {k \in Entries(t) : log[t][k].form.ty = "notice"}
FirstNotices(t) == {k \in Notices(t) : log[t][k].i = 0 /\ log[t][k].nest = 0}
PayloadExchange(t) ==
  {k \in Entries(t) : log[t][k].form.ty = "payload" \/ log[t][k].url = BaseUrl \o "info"}
\* the assertion the call received, if it has
GotAssertion(t) ==
  Authenticating(t) /\ \E k \in Asked(t, "assertionUrl") : log[t][k].resp.r = "ok"
Assertion(t) ==
  log[t][CHOOSE k \in Asked(t, "assertionUrl") : log[t][k].resp.r = "ok"].resp.body
GotPayloadAnswer(t) == \E k \in Asked(t, "payloadUrl") : log[t][k].resp.r = "ok"
PayloadAnswer(t) ==
  log[t][CHOOSE k \in Asked(t, "payloadUrl") : log[t][k].resp.r = "ok"].resp.body
KeyBindingHolds(data) ==
  data.keySignature
     = RsaSign(ServiceKey, calculateSignatureData(data.username, data.deviceId,
                                                  data.publicKey, data.publicKeyLevel))
SolutionHolds(data) == data.authenticationSolution = RsaSign(data.publicKey, AuthChallenge)
\* the device's acknowledgement of the set, in the payload of a response
Ack(body) == JsonParse(FromHex(body.payload.data).aes).v.setResponse
\* the device acknowledged the set, where a non-empty set was requested
SetRefused(t) ==
  /\ op[t].payload # NoPayload
  /\ DOMAIN op[t].payload.set # {}
  /\ GotPayloadAnswer(t)
  /\ ~Ack(PayloadAnswer(t))
MainPath(t) ==
  GotAssertion(t) /\ Assertion(t).authenticated = "true" /\ KeyBindingHolds(Assertion(t))

\* C4 (as claimed): on the main path the call returns Success exactly when the solution
\* verified and the payload was valid, so a refused set gives Failure, and the outcome
\* agrees with the verified flag of the notice sent.
C4_SuccessIffVerifiedAndPayloadValid ==
  \A t \in Tasks : (MainPath(t) /\ Returned(t)) =>
     /\ out[t].v.authenticated = "Success"
          <=> (SolutionHolds(Assertion(t)) /\ ~SetRefused(t))
     /\ \A k \in Notices(t) : log[t][k].form.verified <=> out[t].v.authenticated = "Success"

\* C5's case: authenticated "true", a key signature that does not verify, a verify URL
KeyMismatch(t) ==
  /\ GotAssertion(t) /\ Assertion(t).authenticated = "true"
  /\ ~KeyBindingHolds(Assertion(t))
  /\ Assertion(t).verifyAuthenticationURL # Undefined

\* C5: when the assertion says "true" and its key signature does not verify, the call
\* posts a notice with verified = false and the mismatch reason to the verify URL (one
\* call of accept), and then throws: it never returns, never evaluates the solution,
\* never exchanges a payload; once the notice is acknowledged the error is the mismatch.
C5_KeyMismatchNotifiesThenThrows ==
  \A t \in Tasks : KeyMismatch(t) =>
     /\ cnt[t].accept = 1 /\ Cardinality(FirstNotices(t)) = 1
     /\ \A k \in Notices(t) :
          /\ log[t][k].method = "POST"
          /\ log[t][k].url = Assertion(t).verifyAuthenticationURL
          /\ log[t][k].form.verified = FALSE
          /\ log[t][k].form.failReason = MismatchReason(Assertion(t).username)
     /\ cnt[t].solution = 0
     /\ PayloadExchange(t) = {}
     /\ Done(t) => Threw(t)
     /\ (Done(t) /\ Last(t).resp.r = "ok" /\ Last(t).form.ty = "notice")
           => out[t] = Throw(MismatchReason(Assertion(t).username))

C5_Witness ==
  \E t \in Tasks :
    /\ KeyMismatch(t) /\ op[t].payload # NoPayload
    /\ SolutionHolds(Assertion(t))
    /\ Len(log[t]) = Cardinality(Asked(t, "assertionUrl")) + 1
    /\ out[t] = Throw(MismatchReason(Username))

\* C6's case: an assertion whose authenticated field is not "true", with a verify URL
NotTrue(t) ==
  /\ GotAssertion(t) /\ Assertion(t).authenticated # "true"
  /\ Assertion(t).verifyAuthenticationURL # Undefined
ReportedReason(a) == IF a \in {"cancelled", "reported"} THEN a ELSE Undefined
ReportedOutcome(a) ==
  CASE a = "cancelled" -> "Cancel" [] a = "reported" -> "Report" [] OTHER -> "Failure"

\* C6: for an assertion that does not say "true", the call posts one notice with
\* verified = false, carrying "cancelled" or "reported" when that was reported and no
\* reason otherwise, verifies no signature, exchanges no payload, and returns Cancel,
\* Report or Failure with the empty payload response.
C6_NotTrueNotifiesAndReturns ==
  \A t \in Tasks : NotTrue(t) =>
     /\ cnt[t].accept = 1 /\ Cardinality(FirstNotices(t)) = 1
     /\ \A k \in Notices(t) :
          /\ log[t][k].form.verified = FALSE
          /\ log[t][k].form.failReason = ReportedReason(Assertion(t).authenticated)
     /\ cnt[t].verifySig = 0 /\ cnt[t].solution = 0
     /\ PayloadExchange(t) = {}
     /\ Returned(t) =>
          out[t].v = [ty |-> "AuthenticationResult",
                      authenticated |-> ReportedOutcome(Assertion(t).authenticated),
                      username |-> Assertion(t).username,
                      payload |-> [get |-> EmptyDict, set |-> FALSE]]
     /\ (Done(t) /\ Last(t).form.ty = "notice" /\ Last(t).resp.r = "ok") => Returned(t)

C6_Witness ==
  \E t \in Tasks :
    /\ NotTrue(t) /\ Returned(t) /\ op[t].payload # NoPayload
    /\ Assertion(t).authenticated = "cancelled"
    /\ out[t].v.authenticated = "Cancel"

\* C10 (as claimed): no notice is posted unless the assertion gave a verify URL that is
\* populated and non-empty; without one the accept step ends the call with the
\* missing-verification-URL error and posts nothing.
C10_NoNoticeWithoutVerifyUrl ==
  \A t \in Tasks :
    (GotAssertion(t) /\ Assertion(t).verifyAuthenticationURL \in {Undefined, ""}) =>
       /\ Notices(t) = {}
       /\ cnt[t].accept > 0 => out[t] = Throw(MissingVerifyUrl)

----------------------------------------------------------------------------
(* Properties of getUserDevices and of Enrolment.confirm *)

DevicesUrl(t) == BaseUrl \o "sp/user-devices/" \o op[t].username
GotDevices(t) ==
  op[t].name = "getUserDevices" /\ \E k \in Asked(t, DevicesUrl(t)) : log[t][k].resp.r = "ok"
Reported(t) ==
  log[t][CHOOSE k \in Asked(t, DevicesUrl(t)) : log[t][k].resp.r = "ok"].resp.body.devices
\* every signature the server supplied for the device is the Service's signature over
\* (username, deviceId, that level's key, level)
AllSignaturesVerify(deviceJson, username) ==
  \A l \in DOMAIN deviceJson.signatures :
     deviceJson.signatures[l]
       = RsaSign(ServiceKey, calculateSignatureData(username, deviceJson.deviceId,
                                                    deviceJson.publicKeys[l], l))
Passing(t) ==
  LET Good(deviceJson) == AllSignaturesVerify(deviceJson, op[t].username)
  IN  SelectSeq(Reported(t), Good)

\* C7: the devices getUserDevices returns are, in the server's order, exactly the
\* reported devices all of whose supplied signatures verify: a device with a failing
\* level is absent, every device without one is present.
C7_ReturnsExactlyVerifiedDevices ==
  \A t \in Tasks : (GotDevices(t) /\ Returned(t)) =>
     /\ Len(out[t].v) = Len(Passing(t))
     /\ \A i \in 1..Len(Passing(t)) :
          out[t].v[i] = [ty |-> "Device", id |-> Passing(t)[i].deviceId,
                         name |-> Passing(t)[i].friendlyName,
                         keys |-> Passing(t)[i].publicKeys]

C7_Witness ==
  \E t \in Tasks :
    /\ GotDevices(t) /\ Returned(t)
    /\ Len(Reported(t)) = 2 /\ Len(out[t].v) = 1
    /\ out[t].v[1].id = "dev2"
    /\ 1 \in DOMAIN Reported(t)[1].signatures
    /\ verifySignature(Reported(t)[1].signatures[1], Username, "dev1", "device-key-1", 1)

\* C8 (as claimed): with zero devices reported the call returns the empty list; with one
\* or more reported and none passing it throws "Mismatching key signatures"; it never
\* returns an empty list when a device was reported.
C8_EmptyOnlyWhenNoneReported ==
  \A t \in Tasks : GotDevices(t) =>
     /\ Len(Reported(t)) = 0 => out[t] = Ret(<<>>)
     /\ (Len(Reported(t)) > 0 /\ Len(Passing(t)) = 0)
           => out[t] = Throw("Mismatching key signatures")
     /\ (Len(Reported(t)) > 0 /\ Returned(t)) => Len(out[t].v) > 0

\* C9: confirm on an Enrolment whose confirmationUrl is not populated throws the
\* missing-confirmation-URL error at once, whatever success and payload are: nothing is
\* signed, nothing is requested, the object is left as it was.
C9_ConfirmNeedsConfirmationUrl ==
  \A t \in Tasks :
    (op[t].name = "confirm" /\ Falsy(op[t].before.confirmationUrl)) =>
       /\ out[t] = Throw(MissingConfirmUrl)
       /\ log[t] = <<>>
       /\ cnt[t].sign = 0
       /\ enrolment = op[t].before

C9_Witness ==
  \E t \in Tasks :
    /\ op[t].name = "confirm" /\ op[t].before.confirmationUrl = ""
    /\ op[t].before.deviceId = DeviceId
    /\ op[t].success /\ PayloadToSet(op[t].payload)
    /\ out[t] = Throw(MissingConfirmUrl)

----------------------------------------------------------------------------
(* Properties of the Enrolment object *)

OnEnrolment(t) == op[t].name \in EnrolmentCalls
Populated(enr) ==
  enr.publicKeys # << >> /\ enr.deviceId # "" /\ ~Falsy(enr.confirmationUrl)
GotAnswer(t, url) == \E k \in Asked(t, url) : log[t][k].resp.r = "ok"
AnswerTo(t, url) == log[t][CHOOSE k \in Asked(t, url) : log[t][k].resp.r = "ok"].resp.body

\* C11 (as claimed): publicKeys, deviceId and confirmationUrl change only by a validate
\* that succeeds, and once they are populated no later getState, validate, confirm or
\* serialize changes them.
C11_EnrolmentFieldsWriteOnce ==
  \A t \in Tasks :
    /\ ~OnEnrolment(t) => enrolment = NewEnrolment
    /\ (OnEnrolment(t) /\ enrolment # op[t].before)
          => (op[t].name = "validate" /\ Returned(t))
    /\ (OnEnrolment(t) /\ Populated(op[t].before)) => enrolment = op[t].before

\* C12: a validate whose response carries a failure reason throws that reason, a
\* validate whose transport call throws throws that error, and a validate that has not
\* returned leaves publicKeys, deviceId and confirmationUrl as they were; confirm on an
\* Enrolment still as constructed fails its precondition.
C12_FailedValidateChangesNothing ==
  \A t \in Tasks :
    /\ op[t].name = "validate" =>
         /\ ~Returned(t) => enrolment = op[t].before
         /\ (GotAnswer(t, "validateUrl") /\ ~Falsy(AnswerTo(t, "validateUrl").failReason))
               => out[t] = Throw(AnswerTo(t, "validateUrl").failReason)
         /\ (Done(t) /\ Last(t).nest = 0 /\ Last(t).resp.r = "error")
               => out[t] = Throw(Last(t).resp.e)
    /\ (op[t].name = "confirm" /\ op[t].before = NewEnrolment)
          => out[t] = Throw(MissingConfirmUrl)

C12_Witness ==
  \E t \in Tasks :
    /\ op[t].name = "validate" /\ Populated(op[t].before)
    /\ op[t].before.deviceId = DeviceId
    /\ out[t] = Throw("timed out")
    /\ enrolment = op[t].before
ConfirmPosts(t) == {k \in Entries(t) : log[t][k].form.ty = "confirmRequest"}
VerifyPosts(t) == {k \in Entries(t) : log[t][k].form.ty = "payloadVerify"}
GotConfirm(t) == \E k \in ConfirmPosts(t) : log[t][k].resp.r = "ok"
ConfirmAnswer(t) ==
  log[t][CHOOSE k \in ConfirmPosts(t) : log[t][k].resp.r = "ok"].resp.body
FirstAttempts(t, S) == {k \in S : log[t][k].i = 0 /\ log[t][k].nest = 0}

\* C13: confirm(success, payload) with a non-empty set returns success = (success and the
\* device's acknowledgement) and payload.set = that acknowledgement; when the response
\* names a payload-verification URL one POST {verified: returned success} goes to it,
\* after the confirm POST, and none otherwise.
C13_ConfirmWithPayloadSet ==
  \A t \in Tasks :
    (op[t].name = "confirm" /\ PayloadToSet(op[t].payload) /\ Returned(t)) =>
       /\ GotConfirm(t)
       /\ out[t].v.success = (op[t].success /\ Ack(ConfirmAnswer(t)))
       /\ out[t].v.payload.set = Ack(ConfirmAnswer(t))
       /\ IF Falsy(ConfirmAnswer(t).payloadVerifyURL) THEN VerifyPosts(t) = {}
          ELSE /\ Cardinality(FirstAttempts(t, VerifyPosts(t))) = 1
               /\ \A k \in VerifyPosts(t) :
                    /\ log[t][k].method = "POST"
                    /\ log[t][k].url = ConfirmAnswer(t).payloadVerifyURL
                    /\ log[t][k].form.verified = out[t].v.success
                    /\ \A c \in ConfirmPosts(t) : c < k

C13_Witness ==
  \E t \in Tasks :
    /\ op[t].name = "confirm" /\ PayloadToSet(op[t].payload) /\ Returned(t)
    /\ op[t].success /\ ~out[t].v.success
    /\ VerifyPosts(t) # {}

\* C14's case: confirm without a payload to set, on an Enrolment validate has populated
PlainConfirm(t) ==
  /\ op[t].name = "confirm" /\ ~PayloadToSet(op[t].payload)
  /\ ~Falsy(op[t].before.confirmationUrl)

\* C14: confirm(s) without a payload, or with one whose set is empty, posts once, to
\* confirmationUrl, "confirm" if s and "reject" otherwise with one signature per level of
\* the device's keys and no encrypted payload, asks nothing else, and returns
\* {success: s, payload: undefined}.
C14_PlainConfirm ==
  \A t \in Tasks : PlainConfirm(t) =>
     /\ Cardinality(FirstAttempts(t, Entries(t))) = 1
     /\ \A k \in OwnAttempts(t) :
          /\ log[t][k].method = "POST"
          /\ log[t][k].url = op[t].before.confirmationUrl
          /\ log[t][k].form =
               [ty |-> "confirmRequest",
                confirm |-> IF op[t].success THEN "confirm" ELSE "reject",
                payload |-> UndefVal,
                signatures |-> [l \in DOMAIN op[t].before.publicKeys |->
                   RsaSign(ServiceKey,
                           calculateSignatureData(EnrolUsername, op[t].before.deviceId,
                                                  op[t].before.publicKeys[l], l))]]
     /\ PayloadExchange(t) = {}
     /\ Returned(t) => out[t].v = [ty |-> "EnrolmentResult", success |-> op[t].success,
                                   payload |-> UndefVal]
     /\ (Done(t) /\ Last(t).nest = 0 /\ Last(t).resp.r = "ok") => Returned(t)

C14_Witness ==
  \E t \in Tasks :
    /\ PlainConfirm(t) /\ Returned(t)
    /\ ~op[t].success /\ op[t].payload # NoPayload
    /\ Len(log[t]) = 1 /\ log[t][1].form.confirm = "reject"
    /\ DOMAIN log[t][1].form.signatures = Levels
----------------------------------------------------------------------------
(* Properties of the payload envelope and of the payload size *)

Encrypting(t) == op[t].name = "encryptPayloadData"
LengthExceeded(t) == out[t] = Throw("PayloadDataLengthExceededError")
\* Buffer.toString("hex"): two characters a byte
HexLen(bytes) == 2 * bytes

\* C15: once the maximum payload size is known, encryptPayloadData raises
\* PayloadDataLengthExceededError exactly when 2 * (bytes of the serialized payload + 16)
\* reaches it, and otherwise returns an envelope whose data is ciphertext followed by the
\* IV, its hex shorter than the maximum; it ends in no other way unless the size could
\* not be had.
C15_LengthCeiling ==
  \A t \in Tasks : (Encrypting(t) /\ Done(t)) =>
     /\ LengthExceeded(t) =>
          (payloadSize # UndefinedSize /\ 2 * (JsonLen(op[t].json) + 16) >= payloadSize)
     /\ Returned(t) =>
          /\ payloadSize # UndefinedSize /\ 2 * (JsonLen(op[t].json) + 16) < payloadSize
          /\ FromHex(out[t].v.data).len = JsonLen(op[t].json) + 16
          /\ HexLen(FromHex(out[t].v.data).len) < payloadSize
     /\ payloadSize # UndefinedSize => (LengthExceeded(t) \/ Returned(t))

C15_Witness ==
  \E t \in Tasks :
    /\ Encrypting(t) /\ LengthExceeded(t)
    /\ 2 * (JsonLen(op[t].json) + 16) = payloadSize
InfoRequests(t) == Asked(t, BaseUrl \o "info")
PayloadPosts(t) == {k \in Entries(t) : log[t][k].form.ty = "payload"}
\* the calls that reach encryptPayloadData
Enveloping(t) == op[t].name \in {"authenticate", "confirm", "encryptPayloadData"}

\* C16 (as claimed): PayloadDataLengthExceededError comes before any network I/O:
\* encryptPayloadData has issued no request when it raises it, and the call around it
\* sends neither the confirm POST nor the payload POST.
C16_LengthErrorBeforeAnyRequest ==
  \A t \in Tasks : (Enveloping(t) /\ LengthExceeded(t)) =>
     /\ InfoRequests(t) = {}
     /\ ConfirmPosts(t) = {} /\ PayloadPosts(t) = {}

\* C16 (amended): when PayloadDataLengthExceededError is raised the call has sent
\* neither the confirm POST nor the payload POST; the only request encryptPayloadData
\* has issued is the one GET of the server information by which the size is had, the
\* last request of the call, and that only when no size was cached before the call.
C16_LengthErrorBeforePayloadRequest ==
  \A t \in Tasks : (Enveloping(t) /\ LengthExceeded(t)) =>
     /\ ConfirmPosts(t) = {} /\ PayloadPosts(t) = {}
     /\ op[t].size # UndefinedSize => InfoRequests(t) = {}
     /\ op[t].size = UndefinedSize =>
          /\ InfoRequests(t) = {Len(log[t])}
          /\ Last(t).method = "GET" /\ Last(t).resp.r = "ok"
     /\ Encrypting(t) => Entries(t) = InfoRequests(t)

C16_Witness ==
  \E t \in Tasks :
    /\ op[t].name = "confirm" /\ LengthExceeded(t)
    /\ op[t].size = UndefinedSize
    /\ Len(log[t]) = 1
AskingInfo(t) == op[t].name = "serverInformation"
\* the response to the one request serverInformation makes
InfoBody(t) == Last(t).resp.body
OlderThanSix(version) == version \in {"5.9.9"}

C18_CachedSizeIsReportedOrDefault ==
  \A t \in Tasks :
     /\ (AskingInfo(t) /\ Returned(t)) =>
           payloadSize = IF InfoBody(t).payloadSize = UndefinedSize
                         THEN 4000 ELSE InfoBody(t).payloadSize
     /\ (Enveloping(t) /\ InfoRequests(t) # {}) => op[t].size = UndefinedSize
     /\ (Encrypting(t) /\ (Returned(t) \/ LengthExceeded(t))) =>
           payloadSize # UndefinedSize
\* verifySignature is given a signature the Service made
Verifying(t) == op[t].name = "verifySignature" /\ op[t].signer = ServiceKey
\* strings that differ in nothing but the case of their letters
EqualIgnoringCase(a, b) ==
  a = b \/ {a, b} \in {{"Alice", "alice"}, {"https://cs/", "HTTPS://CS/"}}

\* C19 (as claimed): a signature verifies against the values it was made over, and
\* does not verify when exactly one of server URL, service id, username, deviceId,
\* key or level differs between signing and verification.
C19_AnyDifferenceFailsVerification ==
  \A t \in Tasks : (Verifying(t) /\ Done(t)) =>
     /\ Returned(t)
     /\ out[t].v.b <=> (op[t].signed = op[t].checked)

\* C19 (amended): a signature verifies against the values it was made over, and does
\* not verify when exactly one of the six differs, unless what differs is the server
\* URL or the username and it differs only in the case of its letters: then it
\* verifies.
C19_DifferenceBeyondCaseFailsVerification ==
  \A t \in Tasks : (Verifying(t) /\ Done(t)) =>
     /\ Returned(t)
     /\ out[t].v.b <=>
          /\ Differing(op[t].signed, op[t].checked) \subseteq {"url", "username"}
          /\ EqualIgnoringCase(op[t].signed.url, op[t].checked.url)
          /\ EqualIgnoringCase(op[t].signed.username, op[t].checked.username)

C19_Witness ==
  \E t \in Tasks :
    /\ Verifying(t) /\ Returned(t)
    /\ op[t].signed.username = "Alice" /\ op[t].checked.username = "alice"
    /\ out[t].v.b
Decrypting(t) == op[t].name = "decryptPayloadJson"
\* the Service that made the envelope is the one it was made for, and the key given
\* to decryptPayloadJson is that of the sender
MatchingKeys(t) == op[t].recipient = ServiceKey /\ op[t].initiator = ServiceKey

----------------------------------------------------------------------------
(* Properties of serialization *)

Deserializing(t) == op[t].name = "deserialize"

Arities(entity) ==
  CASE entity = "Service"   -> {5, 6}
    [] entity = "Device"    -> {4}
    [] entity = "Enrolment" -> {11}
    [] entity = "PushAuth"  -> {10}
    [] entity = "WaveAuth"  -> {11}
HeaderOf(entity) ==
  CASE entity = "Service"   -> "CiphSrvc"
    [] entity = "Device"    -> "CiphDvce"
    [] entity = "Enrolment" -> "CiphEnrl"
    [] entity = "PushAuth"  -> "CiphUsrP"
    [] entity = "WaveAuth"  -> "CiphUsrW"
Versioned(entity, arr) ==
  entity \in {"Enrolment", "PushAuth", "WaveAuth"} \/ (entity = "Service" /\ Len(arr) = 6)
NameOf(entity) ==
  CASE entity = "Service"   -> "service"
    [] entity = "Device"    -> "device"
    [] entity = "Enrolment" -> "enrolment"
    [] entity = "PushAuth"  -> "PushAuth"
    [] entity = "WaveAuth"  -> "WaveAuth"
Acceptable(entity, data) ==
  /\ IsArray(data)
  /\ Len(data.arr) \in Arities(entity)
  /\ data.arr[1] = HeaderOf(entity)
  /\ Versioned(entity, data.arr) => data.arr[2] = "6.0.0"
\* the first thing missing, in the order not-an-array, arity, header, version
Mismatch(entity, data) ==
  CASE ~IsArray(data) -> {"buffer was invalid"}
    [] IsArray(data) /\ Len(data.arr) \notin Arities(entity) ->
         {"incorrect number of components", "no components"}
    [] IsArray(data) /\ Len(data.arr) \in Arities(entity)
         /\ data.arr[1] # HeaderOf(entity) -> {"header not found"}
    [] OTHER -> {"wrong version"}

\* C22: a deserializer accepts an input only if it is an array, of an accepted arity,
\* with the header of the class first and, where versioned, the version "6.0.0" second;
\* and every input it rejects fails with an error that names the class being
\* deserialized and the kind of mismatch.
C22_DeserializersRejectByNameAndKind ==
  \A t \in Tasks : (Deserializing(t) /\ Done(t)) =>
     /\ Returned(t) => Acceptable(op[t].x.ty, op[t].data)
     /\ Threw(t) =>
          \E kind \in Mismatch(op[t].x.ty, op[t].data) :
             out[t].e = "Attempted to deserialize " \o NameOf(op[t].x.ty) \o ", but " \o kind
----------------------------------------------------------------------------
(* Properties of getState *)

\* the status the server reported to Enrolment.getState
ReportedStatus(t) == AnswerTo(t, "statusUrl").QREnrolStatus

\* C23: Enrolment.getState maps the status the server reports: initialised, scanned,
\* validated, confirm and failed to Initialised, Scanned, Validated, Confirmed and
\* Failed, and every other string to Unknown, without raising an error.
C23_EnrolmentStateMapping ==
  \A t \in Tasks : (op[t].name = "getState" /\ Done(t) /\ GotAnswer(t, "statusUrl")) =>
     /\ Returned(t)
     /\ ReportedStatus(t) = "initialised" => out[t].v.s = "Initialised"
     /\ ReportedStatus(t) = "scanned" => out[t].v.s = "Scanned"
     /\ ReportedStatus(t) = "validated" => out[t].v.s = "Validated"
     /\ ReportedStatus(t) = "confirm" => out[t].v.s = "Confirmed"
     /\ ReportedStatus(t) = "failed" => out[t].v.s = "Failed"
     /\ ReportedStatus(t) \notin {"initialised", "scanned", "validated", "confirm", "failed"}
          => out[t].v.s = "Unknown"

C23_Witness ==
  \E t \in Tasks :
    /\ op[t].name = "getState" /\ Returned(t) /\ GotAnswer(t, "statusUrl")
    /\ ReportedStatus(t) = "confirmed" /\ out[t].v.s = "Unknown"
\* the status text the server reported to Authentication.getState
ReportedText(t) == AnswerTo(t, "authStatusUrl").statusText
SameNamed(text) ==
  CASE text = "initialised" -> "Initialised"
    [] text = "scanned" -> "Scanned"
    [] text = "pending app solution" -> "PendingAppSolution"
    [] text = "done" -> "Done"
    [] text = "not found" -> "NotFound"

\* C24: PushAuth.getState and WaveAuth.getState never return PendingSPSolution: the
\* status "pending sp solution" is reported as Initialised by PushAuth and as Scanned by
\* WaveAuth; initialised, scanned, pending app solution, done and not found map to the
\* states of the same names; any other status text makes getState raise an error.
C24_AuthenticationStateMapping ==
  \A t \in Tasks : (op[t].name = "authGetState" /\ Done(t)) =>
     /\ Returned(t) => out[t].v.s # "PendingSPSolution"
     /\ GotAnswer(t, "authStatusUrl") =>
          /\ ReportedText(t) = "pending sp solution" =>
               /\ Returned(t)
               /\ out[t].v.s = IF op[t].variant = "Push" THEN "Initialised" ELSE "Scanned"
          /\ ReportedText(t) \in {"initialised", "scanned", "pending app solution", "done",
                                  "not found"} =>
               (Returned(t) /\ out[t].v.s = SameNamed(ReportedText(t)))
          /\ ReportedText(t) \notin {"initialised", "scanned", "pending sp solution",
                                     "pending app solution", "done", "not found"} =>
               Threw(t)

C24_Witness ==
  \E t \in Tasks :
    /\ op[t].name = "authGetState" /\ op[t].variant = "Wave" /\ Returned(t)
    /\ GotAnswer(t, "authStatusUrl") /\ ReportedText(t) = "pending sp solution"
    /\ out[t].v.s = "Scanned"
----------------------------------------------------------------------------
(* Properties of Version *)

Comparing(t) == op[t].name = "compare"
\* the first component in which the two version strings differ, 4 if none
FirstDifference(t) ==
  IF op[t].a = op[t].b THEN 4
  ELSE CHOOSE i \in 1..3 : op[t].a[i] # op[t].b[i] /\ \A j \in 1..(i - 1) : op[t].a[j] = op[t].b[j]
Numeral(a) == CASE a = "0" -> 0 [] a = "1" -> 1 [] a = "2" -> 2 [] a = "9" -> 9 [] OTHER -> -1
Numeric(version) == \A i \in 1..3 : version[i] \in {"0", "1", "2", "9"}

C25_VersionOrderOfNumbers ==
  \A t \in Tasks : (Comparing(t) /\ Done(t) /\ Numeric(op[t].a) /\ Numeric(op[t].b)) =>
     LET r == out[t].v
         d == FirstDifference(t)
     IN  /\ Cardinality({x \in {"lessThan", "equalTo", "greaterThan"} : r[x]}) = 1
         /\ r.compare = -r.reverse
         /\ r.lessThanOrEqual <=> (r.lessThan \/ r.equalTo)
         /\ r.equalTo <=> d = 4
         /\ d # 4 => (r.lessThan <=> Numeral(op[t].a[d]) < Numeral(op[t].b[d]))
----------------------------------------------------------------------------
(* Properties of the second attempt of an access helper *)

\* the own attempts of the call that were answered session-expired: each of them is
\* caught by the helper's loop
OwnExpired(t) == {k \in OwnAttempts(t) : log[t][k].resp.r = "expired"}

\* C26 (as claimed): within one call of an access helper refreshSession is triggered at
\* most once: a session-expired answer to the second attempt ends the call with
\* undefined, and no request of another refreshSession follows it.
C26_SecondExpiryEndsTheCall ==
  \A t \in Tasks : op[t].name = "helper" =>
    /\ Cardinality(OwnExpired(t)) <= 1 \/ stub = "always"
    /\ \A k \in OwnExpired(t) : log[t][k].i = 1 =>
          /\ k = Len(log[t])
          /\ out[t] = Ret(UndefVal)

----------------------------------------------------------------------------
(* Properties of the acceptance notice *)

\* the notices of the call that carry verified = true
Approvals(t) == {k \in Notices(t) : log[t][k].form.verified = TRUE}
\* a set was requested of the device
SetAsked(t) == op[t].payload # NoPayload /\ DOMAIN op[t].payload.set # {}

\* C27: a notice with verified = true is posted only if, in the same call, the
\* assertion said "true", the key-binding signature verified, the solution verified
\* against the call's challenge under the device's key and, where a payload was
\* requested, the payload exchange was answered and the set was empty or acknowledged;
\* every other notice carries verified = false.
C27_ApprovalOnlyWhenAllVerified ==
  \A t \in Tasks : Authenticating(t) =>
    /\ \A k \in Notices(t) : log[t][k].form.verified \in BOOLEAN
    /\ Approvals(t) # {} =>
         /\ GotAssertion(t)
         /\ Assertion(t).authenticated = "true"
         /\ KeyBindingHolds(Assertion(t))
         /\ SolutionHolds(Assertion(t))
         /\ cnt[t].verifySig = 1 /\ cnt[t].solution = 1
         /\ op[t].payload # NoPayload => GotPayloadAnswer(t)
         /\ SetAsked(t) => Ack(PayloadAnswer(t))
         /\ \A k \in Approvals(t), j \in Asked(t, "payloadUrl") : j < k

C27_Witness ==
  \E t \in Tasks :
    /\ Authenticating(t) /\ SetAsked(t) /\ Returned(t)
    /\ Approvals(t) # {}
    /\ Ack(PayloadAnswer(t))

----------------------------------------------------------------------------
(* Properties of Service.verifySignature *)

VerifyingAny(t) == op[t].name = "verifySignature" /\ Returned(t)
\* the signature data verifySignature computes from its arguments
CheckedData(t) ==
  SignatureData(ServiceOf(op[t].checked.url, op[t].checked.id), op[t].checked.username,
                op[t].checked.deviceId, op[t].checked.key, op[t].checked.level)
GivenSignature(t) == Signature(op[t].signer, op[t].signed)

\* C28 (as claimed): verifySignature(sig, u, d, k, l) returns true exactly when sig is
\* a valid signature over calculateSignatureData(u, d, k, l) under the supplied public
\* key k.
C28_ValidUnderSuppliedKey ==
  \A t \in Tasks : VerifyingAny(t) =>
     (out[t].v.b <=> RsaVerify(op[t].checked.key, CheckedData(t), GivenSignature(t)))

\* C28 (amended): verifySignature(sig, u, d, k, l) returns true exactly when sig is a
\* valid signature over calculateSignatureData(u, d, k, l) under the Service's own key;
\* the supplied key k is part of the signed data only.
C28_ValidUnderServiceKey ==
  \A t \in Tasks : VerifyingAny(t) =>
     (out[t].v.b <=> RsaVerify(ServiceKey, CheckedData(t), GivenSignature(t)))

C28_Witness ==
  \E t \in Tasks :
    /\ VerifyingAny(t)
    /\ op[t].signer = op[t].checked.key
    /\ op[t].signed = op[t].checked
    /\ ~out[t].v.b

----------------------------------------------------------------------------
(* Properties of Service.calculateSignatureData *)

Binding(t) == op[t].name = "calculateSignatureData" /\ Returned(t)
\* the tuple a signature is bound to
BoundTuple(a) ==
  <<ToLowerCase(a.url), a.id, ToLowerCase(a.username), a.deviceId, a.key, a.level>>

\* C29 (as claimed): two bound tuples that differ in any component, in one or in
\* several at once, never have the same signature data, and a signature made for one
\* never verifies for the other.
C29_SignatureDataInjective ==
  \A t \in Tasks : (Binding(t) /\ BoundTuple(op[t].a) # BoundTuple(op[t].b)) =>
     /\ out[t].v.first # out[t].v.second
     /\ ~out[t].v.verified

----------------------------------------------------------------------------
(* Properties of Service.decryptPayloadJson *)

\* the signature field of the envelope is the sender's signature over its key field
SignatureHolds(t) ==
  RsaVerify(op[t].initiator, FromHex(op[t].envelope.key), FromHex(op[t].envelope.signature))
\* the data field of the envelope is longer than the IV
DataBeyondIv(t) == FromHex(op[t].envelope.data).len > IvBytes

\* C30: decryptPayloadJson checks the signature over the encrypted key first and fails
\* with "Failed payload signature verification" when it does not verify, whatever else
\* is wrong and before the key is decrypted; it fails when the data field is not
\* longer than the 16 bytes of the IV, with the error of that check once the signature
\* verified and the key was decrypted; it returns a value only if both checks passed.
C30_SignatureThenLength ==
  \A t \in Tasks : (Decrypting(t) /\ Done(t)) =>
     /\ ~SignatureHolds(t) => out[t] = Throw("Failed payload signature verification")
     /\ ~DataBeyondIv(t) => Threw(t)
     /\ (SignatureHolds(t) /\ op[t].recipient = ServiceKey /\ ~DataBeyondIv(t)) =>
           out[t] = Throw("Data field insufficiently long for both data and IV")
     /\ Returned(t) => (SignatureHolds(t) /\ DataBeyondIv(t))

C30_Witness ==
  \E t \in Tasks :
    /\ Decrypting(t) /\ op[t].how = "iv only"
    /\ ~SignatureHolds(t) /\ op[t].recipient # ServiceKey
    /\ out[t] = Throw("Failed payload signature verification")

----------------------------------------------------------------------------
(* Properties of Service.PushAuth and Service.WaveAuth *)

StartingPush(t) == op[t].name = "PushAuth"
\* the place of an own request of Service.PushAuth among its three
Stage(t, k) ==
  CASE log[t][k].url = BaseUrl \o "sp/authentication" -> 1
    [] log[t][k].url = "appChallengeUrl" -> 2
    [] log[t][k].url = "assertionUrl" -> 3
    [] OTHER -> 0
AnsweredAt(t, stage) ==
  \E k \in OwnAttempts(t) : Stage(t, k) = stage /\ log[t][k].resp.r = "ok"
\* both attempts of the request of a stage were answered session-expired
ExpiredTwiceAt(t, stage) ==
  \E j, k \in OwnAttempts(t) :
    /\ j < k /\ Stage(t, j) = stage /\ Stage(t, k) = stage
    /\ log[t][j].resp.r = "expired" /\ log[t][k].resp.r = "expired"
\* the requests of Service.PushAuth are the three of the claim, in their order
PushOrder(t) ==
  /\ \A k \in OwnAttempts(t) : Stage(t, k) # 0
  /\ \A j, k \in OwnAttempts(t) : j < k => Stage(t, j) <= Stage(t, k)
  /\ \A k \in OwnAttempts(t) :
       /\ Stage(t, k) = 1 =>
            /\ log[t][k].method = "POST"
            /\ log[t][k].form.interaction = "Push"
            /\ log[t][k].form.deviceId = op[t].device.id
       /\ Stage(t, k) = 2 =>
            /\ log[t][k].method = "GET"
            /\ AnsweredAt(t, 1)
       /\ Stage(t, k) = 3 =>
            /\ log[t][k].method = "POST"
            /\ log[t][k].form.waitForAppSolution = FALSE
            /\ AnsweredAt(t, 2)
            /\ log[t][k].form.appChallengeSolution = RsaSign(ServiceKey, "app-challenge")
\* an error of the transport, in a request of the call or of a refreshSession, ends
\* the call with that error
ErrorsPropagate(t) ==
  \A k \in Entries(t) : log[t][k].resp.r = "error" => out[t] = Throw(log[t][k].resp.e)

\* C31 (as claimed): Service.PushAuth posts the authentication start, then gets the
\* app's challenge, then posts the signed solution with waitForAppSolution = false; it
\* returns a PushAuth object only after all three succeeded; an error in any of them
\* propagates and no object is returned.
C31_PushAuthAfterThreeSucceeded ==
  \A t \in Tasks : StartingPush(t) =>
    /\ PushOrder(t)
    /\ ErrorsPropagate(t)
    /\ Returned(t) =>
         /\ out[t].v.ty = "PushAuth"
         /\ AnsweredAt(t, 1) /\ AnsweredAt(t, 2) /\ AnsweredAt(t, 3)

\* C31 (amended): the same order and error propagation; a PushAuth object is returned
\* only after the start and the challenge request succeeded and the solution was
\* posted, where the post of the solution either succeeded or was answered
\* session-expired on both of its attempts.
C31_PushAuthAfterSolutionPosted ==
  \A t \in Tasks : StartingPush(t) =>
    /\ PushOrder(t)
    /\ ErrorsPropagate(t)
    /\ Returned(t) =>
         /\ out[t].v.ty = "PushAuth"
         /\ AnsweredAt(t, 1) /\ AnsweredAt(t, 2)
         /\ AnsweredAt(t, 3) \/ ExpiredTwiceAt(t, 3)
    /\ (Done(t) /\ AnsweredAt(t, 3)) => Returned(t)

C31_Witness ==
  \E t \in Tasks :
    /\ StartingPush(t) /\ Returned(t)
    /\ AnsweredAt(t, 3)
    /\ out[t].v.assertionUrl = "assertionUrl" /\ out[t].v.authLevel = 2

StartingWave(t) == op[t].name = "WaveAuth"
\* the requests of the call as its code makes them: the first attempts of its helpers
OwnCalls(t) == {k \in OwnAttempts(t) : log[t][k].i = 0}
ChallengeGets(t) == {k \in OwnAttempts(t) : log[t][k].url = "appChallengeUrl"}
AssertionAsks(t) == {k \in OwnAttempts(t) : log[t][k].url = "assertionUrl"}

\* C32: Service.WaveAuth makes one request, the POST that starts an authentication
\* with interaction "Wave".  WaveAuth.authenticate gets the app's challenge exactly when
\* the object has an appChallengeUrl, and then before it asks for the assertion; it asks
\* for the assertion with a POST that carries the challenge and waitForAppSolution =
\* true.  PushAuth.authenticate asks for the assertion with one GET and gets no app
\* challenge.
C32_WaveDefersTheExchange ==
  \A t \in Tasks :
    /\ StartingWave(t) =>
         /\ Cardinality(OwnCalls(t)) = 1
         /\ \A k \in OwnAttempts(t) :
              /\ log[t][k].method = "POST"
              /\ log[t][k].url = BaseUrl \o "sp/authentication"
              /\ log[t][k].form.interaction = "Wave"
         /\ Returned(t) => out[t].v.ty = "WaveAuth" /\ out[t].v.verifyAuthUrl = Undefined
    /\ (Authenticating(t) /\ authObj.variant = "Wave") =>
         /\ authObj.appChallengeUrl # Undefined =>
              /\ log[t][1].url = "appChallengeUrl" /\ log[t][1].method = "GET"
              /\ Cardinality(ChallengeGets(t) \cap OwnCalls(t)) = 1
              /\ \A k \in AssertionAsks(t) :
                   /\ \E j \in ChallengeGets(t) : j < k /\ log[t][j].resp.r = "ok"
                   /\ \A j \in ChallengeGets(t) : j < k
                   /\ log[t][k].form.appChallengeSolution
                        = RsaSign(ServiceKey, "app-challenge")
         /\ authObj.appChallengeUrl = Undefined =>
              /\ ChallengeGets(t) = {}
              /\ log[t][1].url = "assertionUrl"
         /\ Cardinality(AssertionAsks(t) \cap OwnCalls(t)) <= 1
         /\ \A k \in AssertionAsks(t) :
              /\ log[t][k].method = "POST"
              /\ log[t][k].form.authenticationChallenge = AuthChallenge
              /\ log[t][k].form.waitForAppSolution = TRUE
    /\ (Authenticating(t) /\ authObj.variant = "Push") =>
         /\ ChallengeGets(t) = {}
         /\ log[t][1].url = "assertionUrl"
         /\ Cardinality(AssertionAsks(t) \cap OwnCalls(t)) = 1
         /\ \A k \in AssertionAsks(t) : log[t][k].method = "GET"

C32_Witness ==
  \E t \in Tasks :
    /\ Authenticating(t) /\ authObj.variant = "Wave" /\ Returned(t)
    /\ authObj.appChallengeUrl = "appChallengeUrl"
    /\ \E k \in AssertionAsks(t) : log[t][k].resp.r = "ok"

----------------------------------------------------------------------------
(* Frame of the state shared by the sessions of a Service *)

\* the task that takes the step
Acting(t) == stack'[t] # stack[t] \/ log'[t] # log[t] \/ out'[t] # out[t] \/ op'[t] # op[t]
\* the step is the answer, with a body, to the second request of a refreshSession of t
RefreshCompletes(t) ==
  /\ Len(stack[t]) >= 2
  /\ stack[t][Len(stack[t])].f = "helper"
  /\ stack[t][Len(stack[t])].url = "sp/authenticate-service/"
  /\ stack[t][Len(stack[t]) - 1].f = "refreshSession"
  /\ log'[t][Len(log[t])].resp.r = "ok"
  /\ sessionId' = log'[t][Len(log[t])].resp.body.sessionId
\* the calls on an Enrolment object, and those on an Authentication object
EnrolmentOps == {"validate", "confirm", "getState", "serialize"}
AuthenticationOps == {"authenticate", "authGetState"}

----------------------------------------------------------------------------
(* Properties of two calls in flight *)

\* both calls had their first attempt answered session-expired for the same token
BothExpired ==
  /\ log[1] # <<>> /\ log[2] # <<>>
  /\ log[1][1].resp.r = "expired" /\ log[2][1].resp.r = "expired"
  /\ log[1][1].tok = log[2][1].tok
Retries(t) == {k \in OwnAttempts(t) : log[t][k].i = 1}

\* C39 (as claimed): when two calls in flight on one Service are both answered
\* session-expired for the same stale token, at most one refreshSession is started in
\* all, and the retry of each call carries a token other than the stale one.
C39_OneRefreshForTwoCallers ==
  BothExpired =>
    /\ cnt[1].refresh + cnt[2].refresh <= 1
    /\ \A t \in Tasks : \A k \in Retries(t) : log[t][k].tok # log[t][1].tok

----------------------------------------------------------------------------
(* Properties of Client.createService *)

Creating(t) == op[t].name = "createService"
InfoAsks(t) == {k \in Entries(t) : log[t][k].url = BaseUrl \o "info"}
CreatePosts(t) == {k \in Entries(t) : log[t][k].url = BaseUrl \o "sp/create-service"}
\* serverInformation accepts the answer: a Cipherise server, not older than 6.x.x
Compatible(resp) ==
  /\ resp.r = "ok"
  /\ resp.body.productType = "CS"
  /\ ParseMajor(resp.body.serverVersion).nan
       \/ ParseMajor(resp.body.serverVersion).n >= MinMajorVersion

\* C34: a Client that validates the server version asks for the server's information
\* before it registers: the create-service request is sent only after that was answered
\* and accepted, and when it fails the call throws without a create-service request.
\* The Service returned has the id the server issued and no session token, so that its
\* requests go out without a token.
C34_CompatibilityBeforeRegistering ==
  \A t \in Tasks : Creating(t) =>
    /\ Len(log[t]) <= 2
    /\ op[t].validate =>
         /\ log[t][1].url = BaseUrl \o "info"
         /\ \A k \in CreatePosts(t) : k = 2 /\ Compatible(log[t][1].resp)
         /\ (log[t][1].resp # Pending /\ ~Compatible(log[t][1].resp)) =>
               (Threw(t) /\ CreatePosts(t) = {})
    /\ ~op[t].validate => InfoAsks(t) = {} /\ CreatePosts(t) = {1}
    /\ \A k \in CreatePosts(t) : log[t][k].method = "POST" /\ log[t][k].tok = UndefTok
    /\ Returned(t) =>
         /\ CreatePosts(t) # {}
         /\ Last(t).resp.r = "ok"
         /\ out[t].v.ty = "Service"
         /\ out[t].v.id = Last(t).resp.body.serviceId
         /\ out[t].v.sessionId = NullTok
         /\ SessionHeader(out[t].v.sessionId) = UndefTok

C34_Witness ==
  \E t \in Tasks :
    /\ Creating(t) /\ op[t].validate /\ Returned(t)
    /\ out[t].v.id = "svc9"

----------------------------------------------------------------------------
(* Properties of the requests of refreshSession *)

\* the requests a refreshSession of the call made: its challenge GET and its solve POST
RefreshRequests(t) == {k \in Entries(t) : log[t][k].nest > 0}

\* C35 (as claimed): refreshSession never triggers a nested refreshSession: its
\* challenge and solve requests are not retried and start no refresh of their own, so
\* a call of an access helper makes at most two attempts of its request and, for each
\* of its at most two refreshes, the two requests of that refresh.
C35_NoNestedRefresh ==
  \A t \in Tasks : op[t].name = "helper" =>
    /\ Nest(t) <= 1
    /\ \A k \in RefreshRequests(t) : log[t][k].nest = 1 /\ log[t][k].i = 0
    /\ Cardinality(OwnAttempts(t)) <= 2
    /\ Cardinality(RefreshRequests(t)) <= 4

----------------------------------------------------------------------------
(* Properties of the number of acceptance notices *)

\* the call got an assertion that names a verify URL, and it has ended
EndedWithVerifyUrl(t) ==
  /\ GotAssertion(t) /\ Assertion(t).verifyAuthenticationURL # Undefined
  /\ Done(t)
\* one call of accept: one notice, sent to the verify URL of the assertion
OneNotice(t) ==
  /\ cnt[t].accept = 1 /\ Cardinality(FirstNotices(t)) = 1
  /\ \A k \in Notices(t) : log[t][k].url = Assertion(t).verifyAuthenticationURL
\* a payload was requested on the main path and its exchange did not give a payload
\* response: the encryption, the POST or the decryption failed
PayloadExchangeFailed(t) ==
  /\ MainPath(t) /\ op[t].payload # NoPayload
  /\ \/ ~GotPayloadAnswer(t)
     \/ decryptPayloadJson(Assertion(t).publicKey, PayloadAnswer(t).payload).s = "throw"

\* C36: a call that got an assertion with a verify URL posts exactly one
\* notice to it before it ends, by a return or by a throw, also when the payload
\* exchange fails.
C36_OneNoticeOnEveryPath ==
  \A t \in Tasks : EndedWithVerifyUrl(t) => OneNotice(t)

\* What the code does instead (C36): a failed payload exchange ends the call by a throw
\* with no notice posted; every other ended call posted exactly one.
NoticeUnlessPayloadFails ==
  \A t \in Tasks : EndedWithVerifyUrl(t) =>
     IF PayloadExchangeFailed(t)
     THEN Threw(t) /\ cnt[t].accept = 0 /\ Notices(t) = {}
     ELSE OneNotice(t)
----------------------------------------------------------------------------
(* Properties of what a reported success rests on *)

Revoking(t) == op[t].name = "revokeUser"
RevokePosts(t) == {k \in Entries(t) : log[t][k].form.ty = "revokeRequest"}
\* some request among S got a response from the server
ServerAnswered(t, S) == \E k \in S : log[t][k].resp.r = "ok"
\* the call reports success
ConfirmedPlainly(t) ==
  /\ op[t].name = "confirm" /\ op[t].success /\ op[t].payload = NoPayload
  /\ Returned(t) /\ out[t].v.success
Revoked(t) == Revoking(t) /\ Returned(t)
AuthenticatedSuccess(t) ==
  Authenticating(t) /\ Returned(t) /\ out[t].v.authenticated = "Success"

\* C37: confirm(true) without payload returns success = true, revokeUser resolves, and
\* authenticate returns Success, only if the confirm POST, the revoke POST and the
\* acceptance notice each got a response of the server.
C37_SuccessOnlyIfAnswered ==
  \A t \in Tasks :
    /\ ConfirmedPlainly(t) => ServerAnswered(t, ConfirmPosts(t))
    /\ Revoked(t) => ServerAnswered(t, RevokePosts(t))
    /\ AuthenticatedSuccess(t) => ServerAnswered(t, Notices(t))

----------------------------------------------------------------------------
(* Properties of a rejected enrolment with a payload to set *)

\* confirm(false, payload) with a non-empty set, whose confirm POST the server answered
RejectingWithSet(t) ==
  /\ op[t].name = "confirm" /\ ~op[t].success /\ PayloadToSet(op[t].payload)
  /\ GotConfirm(t) /\ Done(t)

\* C38: confirm(false, payload) with a non-empty set sends no payload, and decrypts no
\* payload response: whatever payload the response to the reject carries (none, as no
\* payload was sent), the call returns success = false.
C38_RejectDecryptsNothing ==
  \A t \in Tasks : RejectingWithSet(t) =>
     /\ \A k \in ConfirmPosts(t) : log[t][k].form.payload = UndefVal
     /\ Returned(t) /\ ~out[t].v.success

----------------------------------------------------------------------------
(* Properties of the signatures behind a returned device *)

\* the record the server reported for a returned device (device ids are distinct)
ReportedAs(t, device) ==
  Reported(t)[CHOOSE i \in DOMAIN Reported(t) : Reported(t)[i].deviceId = device.id]
\* the levels of the record whose signature verifies
VerifiedLevels(deviceJson, username) ==
  {l \in DOMAIN deviceJson.signatures \cap DOMAIN deviceJson.publicKeys :
     verifySignature(deviceJson.signatures[l], username, deviceJson.deviceId,
                     deviceJson.publicKeys[l], l)}

\* C40: every device getUserDevices returns had at least one signature verified, and
\* every key level it carries is covered by a verified signature: a record with no
\* signatures, or with a key level without a signature, is never returned.
C40_ReturnedDevicesFullySigned ==
  \A t \in Tasks : (GotDevices(t) /\ Returned(t)) =>
     \A i \in DOMAIN out[t].v :
        LET verified == VerifiedLevels(ReportedAs(t, out[t].v[i]), op[t].username)
        IN  /\ verified # {}
            /\ DOMAIN out[t].v[i].keys \subseteq verified

====
